---- MODULE Spec2Model ----
(***************************************************************************)
(* Azure Pricing MCP server (azure_pricing_server.py): the resilient       *)
(* fetcher, the per-invocation HTTP session, the tool handler, the search  *)
(* pipeline and the fuzzy service resolver, as state machines.             *)
(*                                                                         *)
(* Every coroutine of the program is a process p with its own position;    *)
(* the only object the coroutines share is the module-level pricing_server *)
(* and its field `session`.                                                *)
(***************************************************************************)
EXTENDS Integers, Sequences, FiniteSets, TLC

VARIABLES
    session,        \* pricing_server.session: 0 is None, else an index of sessState
    sessState,      \* every aiohttp.ClientSession ever constructed: "open" | "closed"
    fpc,            \* per process: position inside _make_request
    attempt,        \* per process: the loop variable of _make_request
    max_retries,    \* per process: the max_retries argument of _make_request
    last_exception, \* per process: the local last_exception of _make_request
    waits,          \* per process: the wait_time of every asyncio.sleep of this fetch
    resp,           \* per process: the upstream answers received by this fetch
    nreq,           \* per process: session.get calls that sent a request in this fetch
    inSess,         \* per process: the session the request in flight was sent on
    fres,           \* per process: what _make_request returned or raised
    running,        \* the coroutine the event loop is running now (0: none, all suspended)
    tpc,            \* per process: position inside handle_call_tool
    tool,           \* per process: the arguments (name, arguments) of handle_call_tool
    subq,           \* per process: sub-queries the operation has issued so far,
                    \* counted up to MaxSubQ
    mySess,         \* per process: the session its own __aenter__ constructed
    bodyOut,        \* per process: how the body of `async with` ended
    result,         \* per process: what handle_call_tool returned
    hist,           \* what the caller of the engine recorded: the answers the upstream
                    \* gave during this call, and the previous call with its answers
    catalog,        \* the price records the upstream holds, in its order
    op,             \* the engine operation called and its arguments
    epc,            \* position inside the operation
    eloc,           \* the locals of _find_similar_services
    spc,            \* position inside the search_azure_prices awaited
    sargs,          \* the arguments of that search
    sdata,          \* the envelope its own query was answered with (`data`)
    sres,           \* the result of the last search that returned
    qlog,           \* every query handed to _make_request, in order, with its part
    eres            \* what the operation returned or raised

sessVars  == <<session, sessState>>
fetchVars == <<fpc, attempt, max_retries, last_exception, waits, resp, nreq, inSess, fres>>
toolVars  == <<tpc, tool, subq, mySess, bodyOut, result, hist>>
engVars   == <<catalog, op, epc, eloc, spc, sargs, sdata, sres, qlog, eres>>
vars      == <<sessVars, fetchVars, running, toolVars, engVars>>

\* The coroutines of the model.
Procs == {1, 2}

(***************************************************************************)
(* Values                                                                  *)
(***************************************************************************)

\* The JSON envelope {Items: [...], NextPageLink?} of the catalog, empty.
NoBody == [Items |-> <<>>, NextPageLink |-> FALSE]

\* No exception / no result yet.
NoRes == [kind |-> "none", status |-> 0, body |-> NoBody]

\* An upstream answer to one session.get: an HTTP response with a status and a
\* body, an aiohttp.ClientError (transport failure), or any other exception.
HttpResponse(st, b) == [kind |-> "http", status |-> st, body |-> b]

\* An HTTP response that response.json() does not decode: aiohttp raises
\* ContentTypeError, a ClientResponseError that carries the status of the
\* response, when the content type is not JSON.
NonJsonResponse(st) == [kind |-> "http_nonjson", status |-> st, body |-> NoBody]

\* The answers that are HTTP responses (they have a status).
IsHttp(r) == r.kind \in {"http", "http_nonjson"}
TransportFailure    == [kind |-> "ClientError", status |-> 0, body |-> NoBody]
OtherFailure        == [kind |-> "Exception", status |-> 0, body |-> NoBody]

\* response.raise_for_status(): raises ClientResponseError for a status >= 400.
RaisesForStatus(st) == st >= 400

\* Mutant of WaitTime: exponential instead of linear backoff (5, 10, 20).
WaitTime_Exponential(a) == 5 * (2 ^ a)

\* Mutant of WaitTime: the wait computed from the zero-based attempt (0, 5, 10).
WaitTime_ZeroBased(a) == 5 * a

\* wait_time = 5 * (attempt + 1)
WaitTime(a) == 5 * (a + 1)

RECURSIVE SumSeq(_)
SumSeq(s) == IF s = <<>> THEN 0 ELSE Head(s) + SumSeq(Tail(s))

(***************************************************************************)
(* Strings                                                                 *)
(*                                                                         *)
(* A Python str is the sequence of its characters, so that lower(), `in`   *)
(* and split() are computed on it as the code computes them.                *)
(***************************************************************************)

\* The value None where a string is optional: a sequence that is no string
\* (its one element is not a character).  The empty string is <<>>.
None == <<"None">>

UpperCase == <<"A", "B", "C", "D", "E", "F", "G", "H", "I", "J", "K", "L", "M",
               "N", "O", "P", "Q", "R", "S", "T", "U", "V", "W", "X", "Y", "Z">>
LowerCase == <<"a", "b", "c", "d", "e", "f", "g", "h", "i", "j", "k", "l", "m",
               "n", "o", "p", "q", "r", "s", "t", "u", "v", "w", "x", "y", "z">>

\* The cased characters after the ASCII letters, up to U+00FF, and what
\* lower() makes of them (U+00C0..U+00DE, the sign U+00D7 is not a letter).
UpperLatin1 == <<"À", "Á", "Â", "Ã", "Ä", "Å", "Æ", "Ç", "È", "É",
                "Ê", "Ë", "Ì", "Í", "Î", "Ï", "Ð", "Ñ", "Ò", "Ó",
                "Ô", "Õ", "Ö", "Ø", "Ù", "Ú", "Û", "Ü", "Ý", "Þ">>
LowerLatin1 == <<"à", "á", "â", "ã", "ä", "å", "æ", "ç", "è", "é",
                "ê", "ë", "ì", "í", "î", "ï", "ð", "ñ", "ò", "ó",
                "ô", "õ", "ö", "ø", "ù", "ú", "û", "ü", "ý", "þ">>

Cased   == UpperCase \o UpperLatin1
Lowered == LowerCase \o LowerLatin1

\* c.lower() of one character: every character str.lower() changes, among
\* the characters a string here is written with (U+0001..U+00FF).
LowerChar(c) ==
    IF \E i \in DOMAIN Cased : Cased[i] = c
    THEN Lowered[CHOOSE i \in DOMAIN Cased : Cased[i] = c]
    ELSE c

\* s.lower()
Lower(s) == [i \in 1..Len(s) |-> LowerChar(s[i])]

\* sub in s
Contains(sub, s) ==
    \E i \in 0..(Len(s) - Len(sub)) : SubSeq(s, i + 1, i + Len(sub)) = sub

\* The characters str.split() treats as separators (str.isspace), among the
\* characters a string here is written with (U+0001..U+00FF): U+0009..U+000D,
\* U+001C..U+001F, the space, U+0085 and the no-break space U+00A0.
Whitespace == {"\t", "\n", "", "\f", "\r", "", "", "", "", " ", "", " "}

\* s.split(): the maximal runs of non-whitespace characters, in order.
RECURSIVE SplitFrom(_, _, _)
SplitFrom(s, i, word) ==
    IF i > Len(s)
    THEN IF word = <<>> THEN <<>> ELSE <<word>>
    ELSE IF s[i] \in Whitespace
    THEN IF word = <<>> THEN SplitFrom(s, i + 1, <<>>)
         ELSE <<word>> \o SplitFrom(s, i + 1, <<>>)
    ELSE SplitFrom(s, i + 1, Append(word, s[i]))

Split(s) == SplitFrom(s, 1, <<>>)

\* bool(s) of an optional string: None and "" are falsy.
Truthy(s) == s # None /\ s # <<>>

SeqToSet(s) == {s[i] : i \in 1..Len(s)}

\* The canonical service names of the alias table.
Svc_AzureAppService == <<"A", "z", "u", "r", "e", " ", "A", "p", "p", " ", "S", "e", "r", "v", "i", "c", "e">>
Svc_VirtualMachines == <<"V", "i", "r", "t", "u", "a", "l", " ", "M", "a", "c", "h", "i", "n", "e", "s">>
Svc_Storage == <<"S", "t", "o", "r", "a", "g", "e">>
Svc_AzureSqlDatabase == <<"A", "z", "u", "r", "e", " ", "S", "Q", "L", " ", "D", "a", "t", "a", "b", "a", "s", "e">>
Svc_AzureCosmosDb == <<"A", "z", "u", "r", "e", " ", "C", "o", "s", "m", "o", "s", " ", "D", "B">>
Svc_AzureKubernetesService == <<"A", "z", "u", "r", "e", " ", "K", "u", "b", "e", "r", "n", "e", "t", "e", "s", " ", "S", "e", "r", "v", "i", "c", "e">>
Svc_AzureFunctions == <<"A", "z", "u", "r", "e", " ", "F", "u", "n", "c", "t", "i", "o", "n", "s">>
Svc_AzureCacheForRedis == <<"A", "z", "u", "r", "e", " ", "C", "a", "c", "h", "e", " ", "f", "o", "r", " ", "R", "e", "d", "i", "s">>
Svc_AzureAiServices == <<"A", "z", "u", "r", "e", " ", "A", "I", " ", "s", "e", "r", "v", "i", "c", "e", "s">>
Svc_AzureOpenai == <<"A", "z", "u", "r", "e", " ", "O", "p", "e", "n", "A", "I">>
Svc_VirtualNetwork == <<"V", "i", "r", "t", "u", "a", "l", " ", "N", "e", "t", "w", "o", "r", "k">>
Svc_LoadBalancer == <<"L", "o", "a", "d", " ", "B", "a", "l", "a", "n", "c", "e", "r">>
Svc_ApplicationGateway == <<"A", "p", "p", "l", "i", "c", "a", "t", "i", "o", "n", " ", "G", "a", "t", "e", "w", "a", "y">>

\* service_mappings: user term -> Azure service name, in the order of the dict.
ServiceMappings == <<
    [term |-> <<"a", "p", "p", " ", "s", "e", "r", "v", "i", "c", "e">>, service |-> Svc_AzureAppService],
    [term |-> <<"w", "e", "b", " ", "a", "p", "p">>, service |-> Svc_AzureAppService],
    [term |-> <<"w", "e", "b", " ", "a", "p", "p", "s">>, service |-> Svc_AzureAppService],
    [term |-> <<"a", "p", "p", " ", "s", "e", "r", "v", "i", "c", "e", "s">>, service |-> Svc_AzureAppService],
    [term |-> <<"w", "e", "b", "s", "i", "t", "e", "s">>, service |-> Svc_AzureAppService],
    [term |-> <<"w", "e", "b", " ", "s", "e", "r", "v", "i", "c", "e">>, service |-> Svc_AzureAppService],
    [term |-> <<"v", "i", "r", "t", "u", "a", "l", " ", "m", "a", "c", "h", "i", "n", "e">>, service |-> Svc_VirtualMachines],
    [term |-> <<"v", "m">>, service |-> Svc_VirtualMachines],
    [term |-> <<"v", "m", "s">>, service |-> Svc_VirtualMachines],
    [term |-> <<"c", "o", "m", "p", "u", "t", "e">>, service |-> Svc_VirtualMachines],
    [term |-> <<"s", "t", "o", "r", "a", "g", "e">>, service |-> Svc_Storage],
    [term |-> <<"b", "l", "o", "b">>, service |-> Svc_Storage],
    [term |-> <<"b", "l", "o", "b", " ", "s", "t", "o", "r", "a", "g", "e">>, service |-> Svc_Storage],
    [term |-> <<"f", "i", "l", "e", " ", "s", "t", "o", "r", "a", "g", "e">>, service |-> Svc_Storage],
    [term |-> <<"d", "i", "s", "k">>, service |-> Svc_Storage],
    [term |-> <<"s", "q", "l">>, service |-> Svc_AzureSqlDatabase],
    [term |-> <<"s", "q", "l", " ", "d", "a", "t", "a", "b", "a", "s", "e">>, service |-> Svc_AzureSqlDatabase],
    [term |-> <<"d", "a", "t", "a", "b", "a", "s", "e">>, service |-> Svc_AzureSqlDatabase],
    [term |-> <<"s", "q", "l", " ", "s", "e", "r", "v", "e", "r">>, service |-> Svc_AzureSqlDatabase],
    [term |-> <<"c", "o", "s", "m", "o", "s">>, service |-> Svc_AzureCosmosDb],
    [term |-> <<"c", "o", "s", "m", "o", "s", "d", "b">>, service |-> Svc_AzureCosmosDb],
    [term |-> <<"c", "o", "s", "m", "o", "s", " ", "d", "b">>, service |-> Svc_AzureCosmosDb],
    [term |-> <<"d", "o", "c", "u", "m", "e", "n", "t", " ", "d", "b">>, service |-> Svc_AzureCosmosDb],
    [term |-> <<"k", "u", "b", "e", "r", "n", "e", "t", "e", "s">>, service |-> Svc_AzureKubernetesService],
    [term |-> <<"a", "k", "s">>, service |-> Svc_AzureKubernetesService],
    [term |-> <<"k", "8", "s">>, service |-> Svc_AzureKubernetesService],
    [term |-> <<"c", "o", "n", "t", "a", "i", "n", "e", "r", " ", "s", "e", "r", "v", "i", "c", "e">>, service |-> Svc_AzureKubernetesService],
    [term |-> <<"f", "u", "n", "c", "t", "i", "o", "n", "s">>, service |-> Svc_AzureFunctions],
    [term |-> <<"f", "u", "n", "c", "t", "i", "o", "n", " ", "a", "p", "p">>, service |-> Svc_AzureFunctions],
    [term |-> <<"s", "e", "r", "v", "e", "r", "l", "e", "s", "s">>, service |-> Svc_AzureFunctions],
    [term |-> <<"r", "e", "d", "i", "s">>, service |-> Svc_AzureCacheForRedis],
    [term |-> <<"c", "a", "c", "h", "e">>, service |-> Svc_AzureCacheForRedis],
    [term |-> <<"a", "i">>, service |-> Svc_AzureAiServices],
    [term |-> <<"c", "o", "g", "n", "i", "t", "i", "v", "e">>, service |-> Svc_AzureAiServices],
    [term |-> <<"c", "o", "g", "n", "i", "t", "i", "v", "e", " ", "s", "e", "r", "v", "i", "c", "e", "s">>, service |-> Svc_AzureAiServices],
    [term |-> <<"o", "p", "e", "n", "a", "i">>, service |-> Svc_AzureOpenai],
    [term |-> <<"n", "e", "t", "w", "o", "r", "k", "i", "n", "g">>, service |-> Svc_VirtualNetwork],
    [term |-> <<"n", "e", "t", "w", "o", "r", "k">>, service |-> Svc_VirtualNetwork],
    [term |-> <<"v", "n", "e", "t">>, service |-> Svc_VirtualNetwork],
    [term |-> <<"l", "o", "a", "d", " ", "b", "a", "l", "a", "n", "c", "e", "r">>, service |-> Svc_LoadBalancer],
    [term |-> <<"l", "b">>, service |-> Svc_LoadBalancer],
    [term |-> <<"a", "p", "p", "l", "i", "c", "a", "t", "i", "o", "n", " ", "g", "a", "t", "e", "w", "a", "y">>, service |-> Svc_ApplicationGateway],
    [term |-> <<"a", "p", "p", " ", "g", "a", "t", "e", "w", "a", "y">>, service |-> Svc_ApplicationGateway]
>>

(***************************************************************************)
(* The catalog and the upstream endpoint                                   *)
(***************************************************************************)

MAX_RESULTS_PER_REQUEST == 1000

\* Strings of the catalog entries and of the requests explored.
Str_eastus == <<"e", "a", "s", "t", "u", "s">>
Str_westus == <<"w", "e", "s", "t", "u", "s">>
Str_D2     == <<"D", "2">>
Str_D2v3   == <<"D", "2", " ", "v", "3">>
Str_B1     == <<"B", "1">>
Str_Hour   == <<"1", " ", "H", "o", "u", "r">>
Str_GBMonth == <<"1", " ", "G", "B", "/", "M", "o", "n", "t", "h">>
Str_Compute == <<"C", "o", "m", "p", "u", "t", "e">>
Str_Consumption == <<"C", "o", "n", "s", "u", "m", "p", "t", "i", "o", "n">>
Svc_Backup == <<"B", "a", "c", "k", "u", "p">>

\* A savingsPlan entry: term and hourly retailPrice.  Prices are integers,
\* in millionths of the currency unit (6 decimals).
Plan(term, price) ==
    [term |-> term, retailPrice |-> price, hasOriginalPrice |-> FALSE, originalPrice |-> 0]

\* A price record as the upstream returns it.  The key originalPrice, which
\* _apply_discount_to_items adds, is absent (hasOriginalPrice = FALSE).
PriceRecord(svc, product, sku, region, price, unit, plans) ==
    [ serviceName |-> svc, serviceFamily |-> Str_Compute, productName |-> product,
      skuName |-> sku, armSkuName |-> sku, armRegionName |-> region,
      retailPrice |-> price, unitOfMeasure |-> unit,
      priceType |-> Str_Consumption, savingsPlan |-> plans,
      hasOriginalPrice |-> FALSE, originalPrice |-> 0 ]

\* The price records the catalogs explored are made of.  A tenth off 0.050025
\* and 0.000025 is half-way between two millionths.  The two records of the
\* SKU D2 are meters of different units.
ItemUniverse ==
    { PriceRecord(Svc_VirtualMachines, Svc_VirtualMachines, Str_D2, Str_eastus, 96000,
                  Str_Hour, <<Plan("1 Year", 70000), Plan("3 Years", 50025)>>),
      PriceRecord(Svc_VirtualMachines, Svc_VirtualMachines, Str_D2, Str_westus, 0,
                  Str_GBMonth, <<Plan("1 Year", 0)>>),
      PriceRecord(Svc_VirtualMachines, Svc_VirtualMachines, Str_D2v3, Str_westus, 192000,
                  Str_Hour, <<>>),
      PriceRecord(Svc_AzureAppService, Svc_AzureAppService, Str_B1, Str_eastus, 75000,
                  Str_Hour, <<>>),
      PriceRecord(Svc_Backup, Svc_Backup, Str_B1, Str_eastus, 25, Str_GBMonth, <<>>) }

\* The longest catalog explored.
MaxCatalog == 2

RECURSIVE SeqsUpTo(_, _)
SeqsUpTo(S, n) ==
    IF n = 0 THEN {<<>>}
    ELSE LET shorter == SeqsUpTo(S, n - 1)
         IN  shorter \cup {Append(s, x) : s \in shorter, x \in S}

Catalogs == SeqsUpTo(ItemUniverse, MaxCatalog)

\* A service with many SKUs: 12 westus records of Virtual Machines, 11 of
\* them with "D2" in the SKU name (7 distinct names) and one B1.
Str_D2s  == <<"D", "2", "s">>
Str_D2a  == <<"D", "2", "a">>
Str_D2d  == <<"D", "2", "d">>
Str_D2v4 == <<"D", "2", " ", "v", "4">>
Str_D2v5 == <<"D", "2", " ", "v", "5">>

BulkSkuNames ==
    << Str_D2, Str_B1, Str_D2, Str_D2v3, Str_D2s, Str_D2a, Str_D2d, Str_D2v4, Str_D2v5,
       Str_D2s, Str_D2a, Str_D2d >>

BulkCatalog ==
    [ i \in 1..Len(BulkSkuNames) |->
        PriceRecord(Svc_VirtualMachines, Svc_VirtualMachines, BulkSkuNames[i], Str_westus,
                    96000 + 1000 * i, Str_Hour, <<>>) ]

\* One predicate of the $filter expression.
Cond(field, operator, value) == [field |-> field, op |-> operator, value |-> value]

\* Whether a price record satisfies a predicate: field eq 'value' or
\* contains(field, 'value').
Satisfies(item, c) ==
    IF c.op = "eq" THEN item[c.field] = c.value
    ELSE Contains(c.value, item[c.field])

RECURSIVE SelectItems(_, _)
SelectItems(items, conds) ==
    IF items = <<>> THEN <<>>
    ELSE LET rest == SelectItems(Tail(items), conds)
         IN  IF \A i \in 1..Len(conds) : Satisfies(Head(items), conds[i])
             THEN <<Head(items)>> \o rest
             ELSE rest

\* The envelope the endpoint answers a request with: the records of the
\* catalog that satisfy $filter, cut to $top when the endpoint honours it
\* (honoursTop), with NextPageLink when records are left.
UpstreamBody(cat, params, honoursTop) ==
    LET matching == SelectItems(cat, params.filter)
        cut == params.hasTop /\ honoursTop /\ params.top >= 0 /\ Len(matching) > params.top
    IN  [ Items |-> IF cut THEN SubSeq(matching, 1, params.top) ELSE matching,
          NextPageLink |-> cut ]

(***************************************************************************)
(* AzurePricingServer.search_azure_prices: what it computes                *)
(***************************************************************************)

\* The arguments of search_azure_prices.  hasDiscount = FALSE is
\* discount_percentage = None.
SearchArgs(svc, family, region, sku, ptype, limit, hasDiscount, discount, validate) ==
    [ service_name |-> svc, service_family |-> family, region |-> region,
      sku_name |-> sku, price_type |-> ptype, currency_code |-> "USD",
      limit |-> limit, hasDiscount |-> hasDiscount, discount_percentage |-> discount,
      validate_sku |-> validate ]

\* Mutant of FilterConditions: a field is left out only when it is None.
FilterConditions_NotNone(a) ==
    (IF a.service_name # None THEN <<Cond("serviceName", "eq", a.service_name)>> ELSE <<>>)
    \o (IF a.service_family # None THEN <<Cond("serviceFamily", "eq", a.service_family)>> ELSE <<>>)
    \o (IF a.region # None THEN <<Cond("armRegionName", "eq", a.region)>> ELSE <<>>)
    \o (IF a.sku_name # None THEN <<Cond("skuName", "contains", a.sku_name)>> ELSE <<>>)
    \o (IF a.price_type # None THEN <<Cond("priceType", "eq", a.price_type)>> ELSE <<>>)

\* filter_conditions (lines 112-124): the predicates that " and ".join makes
\* the $filter expression of, which the endpoint applies together.
FilterConditions(a) ==
    (IF Truthy(a.service_name) THEN <<Cond("serviceName", "eq", a.service_name)>> ELSE <<>>)
    \o (IF Truthy(a.service_family) THEN <<Cond("serviceFamily", "eq", a.service_family)>> ELSE <<>>)
    \o (IF Truthy(a.region) THEN <<Cond("armRegionName", "eq", a.region)>> ELSE <<>>)
    \o (IF Truthy(a.sku_name) THEN <<Cond("skuName", "contains", a.sku_name)>> ELSE <<>>)
    \o (IF Truthy(a.price_type) THEN <<Cond("priceType", "eq", a.price_type)>> ELSE <<>>)

\* params (lines 127-137): $filter only when there are conditions, $top only
\* when limit < MAX_RESULTS_PER_REQUEST.
Params(a) ==
    [ currencyCode |-> a.currency_code,
      hasFilter |-> FilterConditions(a) # <<>>,
      filter |-> FilterConditions(a),
      hasTop |-> a.limit < MAX_RESULTS_PER_REQUEST,
      top |-> a.limit ]

\* s[:n] of Python: the first n elements, or all but the last -n when n < 0.
PySlice(s, n) ==
    IF n >= 0
    THEN SubSeq(s, 1, IF n > Len(s) THEN Len(s) ELSE n)
    ELSE SubSeq(s, 1, IF Len(s) + n < 0 THEN 0 ELSE Len(s) + n)

\* if len(items) > limit: items = items[:limit]
Truncate(items, limit) ==
    IF Len(items) > limit THEN PySlice(items, limit) ELSE items

(***************************************************************************)
(* Python floats                                                           *)
(*                                                                         *)
(* A Python float is an IEEE 754 binary64 number: a sign and a 53-bit      *)
(* mantissa m scaled by a power of two, m * 2^e. Every operation (a       *)
(* literal, *, /, -) gives the float nearest to the exact result, the one  *)
(* with the even mantissa on a tie. The mantissas and their products       *)
(* exceed the 32-bit integers, so they are kept as natural numbers in      *)
(* base 2^15, least significant digit first, with no leading zero digit    *)
(* (<<>> is zero). Exponents stay far from the range where a float         *)
(* overflows or is subnormal.                                              *)
(***************************************************************************)

\* The base of the digits of a natural number.
Limb == 32768

\* The bits of a digit.
LimbBits == 15

\* The bits of the mantissa of a float.
MantissaBits == 53

\* The number without leading zero digits.
RECURSIVE BNorm(_)
BNorm(a) ==
    IF a = <<>> THEN <<>>
    ELSE IF a[Len(a)] = 0 THEN BNorm(SubSeq(a, 1, Len(a) - 1))
    ELSE a

\* The natural number n >= 0.
RECURSIVE BFromInt(_)
BFromInt(n) == IF n = 0 THEN <<>> ELSE <<n % Limb>> \o BFromInt(n \div Limb)

\* The integer a (which fits in 31 bits).
RECURSIVE BToInt(_)
BToInt(a) == IF a = <<>> THEN 0 ELSE a[1] + Limb * BToInt(Tail(a))

\* -1, 0 or 1 as a < b, a = b or a > b.
RECURSIVE BCmpFrom(_, _, _)
BCmpFrom(a, b, i) ==
    IF i = 0 THEN 0
    ELSE IF a[i] < b[i] THEN -1
    ELSE IF a[i] > b[i] THEN 1
    ELSE BCmpFrom(a, b, i - 1)

BCmp(a, b) ==
    IF Len(a) < Len(b) THEN -1
    ELSE IF Len(a) > Len(b) THEN 1
    ELSE BCmpFrom(a, b, Len(a))

\* a + b + carry
RECURSIVE BAddCarry(_, _, _)
BAddCarry(a, b, c) ==
    IF a = <<>> /\ b = <<>> THEN (IF c = 0 THEN <<>> ELSE <<c>>)
    ELSE LET x == IF a = <<>> THEN 0 ELSE a[1]
             y == IF b = <<>> THEN 0 ELSE b[1]
             t == x + y + c
         IN  <<t % Limb>> \o BAddCarry(IF a = <<>> THEN <<>> ELSE Tail(a),
                                       IF b = <<>> THEN <<>> ELSE Tail(b), t \div Limb)

BAdd(a, b) == BAddCarry(a, b, 0)

\* a - b - borrow, for a >= b + borrow (leading zero digits are left in)
RECURSIVE BSubBorrow(_, _, _)
BSubBorrow(a, b, c) ==
    IF a = <<>> THEN <<>>
    ELSE LET y == IF b = <<>> THEN 0 ELSE b[1]
             t == a[1] - y - c
         IN  <<t % Limb>> \o BSubBorrow(Tail(a), IF b = <<>> THEN <<>> ELSE Tail(b),
                                        IF t < 0 THEN 1 ELSE 0)

BSub(a, b) == BNorm(BSubBorrow(a, b, 0))

\* a * k + carry for a digit k > 0
RECURSIVE BMulDigit(_, _, _)
BMulDigit(a, k, c) ==
    IF a = <<>> THEN (IF c = 0 THEN <<>> ELSE <<c>>)
    ELSE LET t == a[1] * k + c
         IN  <<t % Limb>> \o BMulDigit(Tail(a), k, t \div Limb)

\* a * Limb^n
BShiftLimbs(a, n) == IF a = <<>> THEN <<>> ELSE [i \in 1..n |-> 0] \o a

RECURSIVE BMul(_, _)
BMul(a, b) ==
    IF a = <<>> \/ b = <<>> THEN <<>>
    ELSE BAdd(IF b[1] = 0 THEN <<>> ELSE BMulDigit(a, b[1], 0),
              BShiftLimbs(BMul(a, Tail(b)), 1))

\* The number of bits of a digit, and of a number.
RECURSIVE DigitBits(_)
DigitBits(d) == IF d = 0 THEN 0 ELSE 1 + DigitBits(d \div 2)

BitLen(a) == IF a = <<>> THEN 0 ELSE LimbBits * (Len(a) - 1) + DigitBits(a[Len(a)])

\* a * 2^n
BShl(a, n) ==
    IF a = <<>> THEN <<>>
    ELSE BShiftLimbs(BMulDigit(a, 2 ^ (n % LimbBits), 0), n \div LimbBits)

\* The largest digit d in lo..hi with d * b <= a (lo is one).
RECURSIVE QuotientDigit(_, _, _, _)
QuotientDigit(a, b, lo, hi) ==
    IF lo = hi THEN lo
    ELSE LET mid == (lo + hi + 1) \div 2
         IN  IF BCmp(BMulDigit(b, mid, 0), a) <= 0
             THEN QuotientDigit(a, b, mid, hi)
             ELSE QuotientDigit(a, b, lo, mid - 1)

\* The digits of a from the n-th up (one or two of them), as a number.
TopDigits(a, n) == IF Len(a) > n THEN a[n + 1] * Limb + a[n] ELSE a[n]

\* The digit a \div b for b <= a < b * Limb, `top` the digits of a from the
\* highest of b up and btop the highest digit of b: the digit lies between
\* top \div (btop + 1) and top \div btop, and is the latter when b is one
\* digit.
QuotientFrom(a, b, top, btop) ==
    IF Len(b) = 1 THEN top \div btop
    ELSE QuotientDigit(a, b,
                       IF top \div (btop + 1) < 1 THEN 1 ELSE top \div (btop + 1),
                       IF top \div btop > Limb - 1 THEN Limb - 1 ELSE top \div btop)

\* The long division of a by b > 0 from the i-th digit of a down, q the
\* quotient of the digits above it and cur their remainder: the quotient
\* (leading zero digits left in) and the remainder. DivideBy takes the digit
\* d of the quotient that the remainder cur, with the i-th digit of a
\* brought down, gives.
RECURSIVE BDivModDown(_, _, _, _, _)
DivideBy(a, b, i, q, cur, d) ==
    BDivModDown(a, b, i - 1, <<d>> \o q, BSub(cur, BMulDigit(b, d, 0)))

BroughtDown(a, b, i, q, cur) ==
    IF BCmp(cur, b) < 0 THEN BDivModDown(a, b, i - 1, <<0>> \o q, cur)
    ELSE DivideBy(a, b, i, q, cur, QuotientFrom(cur, b, TopDigits(cur, Len(b)), b[Len(b)]))

BDivModDown(a, b, i, q, cur) ==
    IF i = 0 THEN <<q, cur>>
    ELSE BroughtDown(a, b, i, q, BNorm(<<a[i]>> \o cur))

Normalized(qr) == <<BNorm(qr[1]), qr[2]>>

BDivMod(a, b) == Normalized(BDivModDown(a, b, Len(a), <<>>, <<>>))

\* The float zero.
FZero == [neg |-> FALSE, m |-> <<>>, e |-> 0]

\* The float of a mantissa q of 53 bits, or of 54 after rounding up (2^53).
FNormal(neg, q, e) ==
    IF BitLen(q) > MantissaBits
    THEN [neg |-> neg, m |-> BDivMod(q, <<2>>)[1], e |-> e + 1]
    ELSE [neg |-> neg, m |-> q, e |-> e]

\* Whether the quotient qr[1] is rounded up, by its remainder qr[2] twice
\* and the divisor: up when the remainder is more than half the divisor, or
\* half of it and the quotient odd.
RoundsUpBy(q, c) == c > 0 \/ (c = 0 /\ q # <<>> /\ q[1] % 2 = 1)

RoundsUp(qr, d) == RoundsUpBy(qr[1], BCmp(BMulDigit(qr[2], 2, 0), d))

\* The quotient qr[1] rounded by its remainder.
Nearest(qr, d) == IF RoundsUp(qr, d) THEN BAddCarry(qr[1], <<>>, 1) ELSE qr[1]

\* a \div 2^n
BShr(a, n) ==
    IF Len(a) <= n \div LimbBits THEN <<>>
    ELSE BDivMod(SubSeq(a, n \div LimbBits + 1, Len(a)), <<2 ^ (n % LimbBits)>>)[1]

\* The quotient q of a by 2^n, and the remainder.
ShiftedOut(a, n, q) == <<q, BSub(a, BShl(q, n))>>

\* a / 2^n rounded to an integer, ties to the even one.
BRoundShr(a, n) == Nearest(ShiftedOut(a, n, BShr(a, n)), BShl(<<1>>, n))

\* The float nearest to n * 2^e for a natural number n of len bits, ties to
\* the even mantissa.
FRoundBits(neg, n, e, len) ==
    IF n = <<>> THEN FZero
    ELSE IF len <= MantissaBits
    THEN [neg |-> neg, m |-> BShl(n, MantissaBits - len), e |-> e - (MantissaBits - len)]
    ELSE FNormal(neg, BRoundShr(n, len - MantissaBits), e + len - MantissaBits)

FRound(neg, n, e) == FRoundBits(neg, n, e, BitLen(n))

\* Twice the quotient qr[1], plus one when the division left a remainder.
WithSticky(qr) == BAddCarry(BMulDigit(qr[1], 2, 0), <<>>, IF qr[2] = <<>> THEN 0 ELSE 1)

\* The float nearest to a / b * 2^e for natural numbers a > 0 and b > 0:
\* the quotient of a * 2^k is taken, and a bit is added below it when the
\* division left a remainder.
FRoundRatioBits(neg, a, b, e, k) ==
    FRound(neg, WithSticky(BDivMod(BShl(a, k), b)), e - k - 1)

\* ... with k such that the quotient has 4 bits more than the mantissa
\* holds, at least, la and lb the bits of a and b.
FRoundRatioOf(neg, a, b, e, la, lb) ==
    FRoundRatioBits(neg, a, b, e,
                    IF lb + MantissaBits + 4 > la THEN lb + MantissaBits + 4 - la ELSE 0)

FRoundRatio(neg, a, b, e) ==
    IF a = <<>> THEN FZero ELSE FRoundRatioOf(neg, a, b, e, BitLen(a), BitLen(b))

\* The float of the decimal literal or JSON number n / d (integers, d > 0),
\* and of an int.
FFromRatio(n, d) ==
    FRoundRatio(n < 0, BFromInt(IF n < 0 THEN -n ELSE n), BFromInt(d), 0)

FFromInt(n) == FRound(n < 0, BFromInt(IF n < 0 THEN -n ELSE n), 0)

\* x * y
FMul(x, y) ==
    IF x.m = <<>> \/ y.m = <<>> THEN FZero
    ELSE FRound(x.neg # y.neg, BMul(x.m, y.m), x.e + y.e)

\* x / y, y not zero
FDiv(x, y) ==
    IF x.m = <<>> THEN FZero
    ELSE FRoundRatio(x.neg # y.neg, x.m, y.m, x.e - y.e)

\* The float nearest to (xm - ym) * 2^e, xm of sign neg.
FSubAligned(neg, xm, ym, e) ==
    IF BCmp(xm, ym) >= 0 THEN FRound(neg, BSub(xm, ym), e)
    ELSE FRound(~neg, BSub(ym, xm), e)

\* x - y for floats that are not zero, e the smaller of their exponents
FSubAt(x, y, e) ==
    IF x.neg # y.neg THEN FRound(x.neg, BAdd(BShl(x.m, x.e - e), BShl(y.m, y.e - e)), e)
    ELSE FSubAligned(x.neg, BShl(x.m, x.e - e), BShl(y.m, y.e - e), e)

\* x - y
FSub(x, y) ==
    IF y.m = <<>> THEN x
    ELSE IF x.m = <<>> THEN [y EXCEPT !.neg = ~y.neg]
    ELSE FSubAt(x, y, IF x.e < y.e THEN x.e ELSE y.e)

\* n * 2^e rounded to an integer, for a natural number n
BRoundScaled(n, e) ==
    IF e >= 0 THEN BShl(n, e) ELSE BRoundShr(n, -e)

Signed(neg, q) == IF neg THEN -q ELSE q

\* round(x, digits) in units of 10^-digits: the multiple nearest to the
\* exact value of the float x, the even one when x is half-way between two.
FRoundDecimals(x, digits) ==
    Signed(x.neg, BToInt(BRoundScaled(BMul(x.m, BFromInt(10 ^ digits)), x.e)))

\* The product of the integers of a sequence without its sign, and whether
\* it is negative.
RECURSIVE Product(_)
Product(ns) ==
    IF ns = <<>> THEN <<1>>
    ELSE BMul(BFromInt(IF Head(ns) < 0 THEN -Head(ns) ELSE Head(ns)), Product(Tail(ns)))

RECURSIVE Negative(_)
Negative(ns) ==
    IF ns = <<>> THEN FALSE
    ELSE IF Head(ns) = 0 THEN FALSE
    ELSE (Head(ns) < 0) # Negative(Tail(ns))

\* Natural numbers below 2^48: of at most 48 bits.
SmallBits == 48

\* Whether n / d lies half-way between two integers, qr the quotient and
\* remainder.
IsTie(qr, d) == BCmp(BMulDigit(qr[2], 2, 0), d) = 0

\* round(x, digits), in units of 10^-digits, of a float x that a few float
\* operations (8 at most) computed for a value that is exactly n / d units
\* (negative if neg), the operands of a subtraction among them adding up
\* to `size` / d units without their signs. Each operation is off by at
\* most 2^-53 of its result, so x is closer to n / d than 2^-49 of size / d;
\* when n / d is not half-way between two units it is at least 1 / 2d away
\* from there, and for size < 2^48 x lies on the same side: round() gives
\* the unit nearest to n / d. Half-way, and for larger values, the binary
\* value of x decides.
RoundOfQuotient(x, digits, neg, qr, d, size) ==
    IF BitLen(size) <= SmallBits /\ ~IsTie(qr, d)
    THEN Signed(neg, BToInt(Nearest(qr, d)))
    ELSE FRoundDecimals(x, digits)

\* d is not 0; the sign of the value is that of n (neg) times that of d.
RoundOf(x, digits, neg, n, d, size) ==
    RoundOfQuotient(x, digits, neg # (d < 0),
                    BDivMod(n, BFromInt(IF d < 0 THEN -d ELSE d)),
                    BFromInt(IF d < 0 THEN -d ELSE d), size)

\* The same for a value that is the product of the integers `factors`, by d.
RoundOfProduct(x, digits, factors, d) ==
    RoundOf(x, digits, Negative(factors), Product(factors), d, Product(factors))

\* The same for a value that is the difference a - b times the integers
\* `factors`, by d, computed as a difference of floats.
RoundOfDifference(x, digits, a, b, factors, d) ==
    RoundOf(x, digits, Negative(<<a - b>> \o factors), Product(<<a - b>> \o factors), d,
            Product(<<(IF a < 0 THEN -a ELSE a) + (IF b < 0 THEN -b ELSE b)>> \o factors))

\* Mutant of DiscountApplies: only a zero discount is ignored.
DiscountApplies_NonZero(a) == a.hasDiscount /\ a.discount_percentage # 0

\* discount_percentage is not None and discount_percentage > 0
DiscountApplies(a) == a.hasDiscount /\ a.discount_percentage > 0

\* A price of so many millionths as the float of its JSON number.
PriceFloat(price) == FFromRatio(price, 1000000)

\* price * (1 - discount_percentage / 100)
DiscountedFloat(price, pct) ==
    FMul(PriceFloat(price), FSub(FFromInt(1), FDiv(FFromInt(pct), FFromInt(100))))

\* round(price * (1 - discount_percentage / 100), 6), in millionths
Discounted(price, pct) ==
    RoundOfProduct(DiscountedFloat(price, pct), 6, <<price, 100 - pct>>, 100)

\* The copy of a record (or savings plan) with its price discounted; a
\* record whose retailPrice is falsy (0) is copied unchanged.
DiscountOne(x, pct) ==
    IF x.retailPrice # 0
    THEN [x EXCEPT !.retailPrice = Discounted(x.retailPrice, pct),
                   !.hasOriginalPrice = TRUE,
                   !.originalPrice = x.retailPrice]
    ELSE x

\* _apply_discount_to_items
ApplyDiscountToItems(items, pct) ==
    [ i \in 1..Len(items) |->
        LET it == DiscountOne(items[i], pct)
        IN  [it EXCEPT !.savingsPlan =
                [j \in 1..Len(items[i].savingsPlan) |-> DiscountOne(items[i].savingsPlan[j], pct)]] ]

\* No validation_info.
NoValidation ==
    [ hasSkuValidation |-> FALSE, original_sku |-> None, suggestions |-> <<>>,
      hasClarification |-> FALSE, clarification |-> <<>> ]

\* The "clarification" entry (lines 153-158): the skuName of the first 5 items.
RECURSIVE TruthySkuNames(_)
TruthySkuNames(items) ==
    IF items = <<>> THEN <<>>
    ELSE (IF Truthy(Head(items).skuName) THEN <<Head(items).skuName>> ELSE <<>>)
             \o TruthySkuNames(Tail(items))

\* Mutant of Clarification: the names of all the items are listed.
Clarification_AllNames(items) ==
    [NoValidation EXCEPT !.hasClarification = TRUE,
                         !.clarification = TruthySkuNames(items)]

Clarification(items) ==
    [NoValidation EXCEPT !.hasClarification = TRUE,
                         !.clarification = TruthySkuNames(PySlice(items, 5))]

\* Whether the exact query of a search is followed by SKU validation
\* (line 151), or gets the clarification (line 153).
\* Mutant of NeedsValidation: every search that found nothing is validated.
NeedsValidation_AnyEmpty(a, items) == items = <<>>

NeedsValidation(a, items) == a.validate_sku /\ Truthy(a.sku_name) /\ items = <<>>
NeedsClarification(a, items) ==
    a.validate_sku /\ Truthy(a.sku_name) /\ items # <<>> /\ Len(items) > 10

\* The result dict of search_azure_prices (lines 160-183) for the envelope
\* `data` of its query and the validation_info `v`.
SearchResult(a, data, v) ==
    LET items == Truncate(data.Items, a.limit)
        out == IF DiscountApplies(a)
               THEN ApplyDiscountToItems(items, a.discount_percentage)
               ELSE items
    IN  [ items |-> out,
          count |-> Len(out),
          has_more |-> data.NextPageLink,
          currency |-> a.currency_code,
          filters_applied |-> FilterConditions(a),
          hasDiscountApplied |-> DiscountApplies(a),
          discount_applied |-> IF DiscountApplies(a) THEN a.discount_percentage ELSE 0,
          validation |-> v ]

\* The arguments of the search that _validate_and_suggest_skus issues
\* (lines 198-203): the service only, limit 100, validation off.
BroadSearchArgs(service_name, currency_code) ==
    [ SearchArgs(service_name, None, None, None, None, 100, FALSE, 0, FALSE)
        EXCEPT !.currency_code = currency_code ]

\* The test of lines 214-216 on the lowercased SKU names.
SkuRelated(sku_lower, item_sku_lower) ==
    \/ Contains(sku_lower, item_sku_lower)
    \/ Contains(item_sku_lower, sku_lower)
    \/ \E w \in SeqToSet(Split(sku_lower)) : Contains(w, item_sku_lower)

\* suggestions (lines 209-223): one entry per related item, in item order.
RECURSIVE SkuSuggestions(_, _)
SkuSuggestions(sku_name, items) ==
    IF items = <<>> THEN <<>>
    ELSE LET item == Head(items)
             rest == SkuSuggestions(sku_name, Tail(items))
         IN  IF Truthy(item.skuName) /\ SkuRelated(Lower(sku_name), Lower(item.skuName))
             THEN << [ sku_name |-> item.skuName, product_name |-> item.productName,
                       price |-> item.retailPrice, unit |-> item.unitOfMeasure,
                       region |-> item.armRegionName ] >> \o rest
             ELSE rest

\* Mutant of UniqueSuggestions: the loop stops one suggestion late.
RECURSIVE UniqueSuggestions_OneMore(_, _, _)
UniqueSuggestions_OneMore(suggestions, seen_skus, unique) ==
    IF suggestions = <<>> \/ Len(unique) > 5 THEN unique
    ELSE IF Head(suggestions).sku_name \in seen_skus
    THEN UniqueSuggestions_OneMore(Tail(suggestions), seen_skus, unique)
    ELSE UniqueSuggestions_OneMore(Tail(suggestions),
                                   seen_skus \cup {Head(suggestions).sku_name},
                                   Append(unique, Head(suggestions)))

\* unique_suggestions (lines 226-234): the first suggestion of each SKU name,
\* at most 5.
RECURSIVE UniqueSuggestions(_, _, _)
UniqueSuggestions(suggestions, seen_skus, unique) ==
    IF suggestions = <<>> \/ Len(unique) >= 5 THEN unique
    ELSE IF Head(suggestions).sku_name \in seen_skus
    THEN UniqueSuggestions(Tail(suggestions), seen_skus, unique)
    ELSE UniqueSuggestions(Tail(suggestions), seen_skus \cup {Head(suggestions).sku_name},
                           Append(unique, Head(suggestions)))

\* The validation_info _validate_and_suggest_skus returns, given the items
\* of its broad search (none when service_name is falsy).
SkuValidation(sku_name, broad_items) ==
    [NoValidation EXCEPT !.hasSkuValidation = TRUE,
                         !.original_sku = sku_name,
                         !.suggestions =
                            UniqueSuggestions(SkuSuggestions(sku_name, broad_items), {}, <<>>)]


(***************************************************************************)
(* AzurePricingServer._find_similar_services and discover_service_skus:    *)
(* what they compute                                                       *)
(***************************************************************************)

\* search_term = service_name.lower() if service_name else ""
SearchTerm(service_name) == IF Truthy(service_name) THEN Lower(service_name) ELSE <<>>

\* search_term in service_mappings, and service_mappings[search_term]
InMappings(term) == \E i \in 1..Len(ServiceMappings) : ServiceMappings[i].term = term
MappedService(term) ==
    ServiceMappings[CHOOSE i \in 1..Len(ServiceMappings) : ServiceMappings[i].term = term].service

\* set(partial_matches) (lines 695-701): the services of the terms that
\* contain the search term or are contained in it.
PartialMatches(term) ==
    { ServiceMappings[i].service :
        i \in { j \in 1..Len(ServiceMappings) :
                  \/ Contains(term, ServiceMappings[j].term)
                  \/ Contains(ServiceMappings[j].term, term) } }

\* Whether the loop of lines 725-732 raises AttributeError: service.lower()
\* of an item whose serviceName is null, or product.lower() of an item whose
\* productName is null, which is evaluated when the term is not in the
\* service name.
MatchingRaises(term, items) ==
    \E j \in 1..Len(items) :
        \/ items[j].serviceName = None
        \/ /\ ~Contains(term, Lower(items[j].serviceName))
           /\ items[j].productName = None

\* matching_services (lines 724-732): the loop raises, or ends with the
\* services of the items that match.
MatchingServices(term, items) ==
    IF MatchingRaises(term, items)
    THEN [raises |-> TRUE, services |-> {}]
    ELSE [ raises |-> FALSE,
           services |->
             { items[i].serviceName :
                 i \in { j \in 1..Len(items) :
                           \/ Contains(term, Lower(items[j].serviceName))
                           \/ Contains(term, Lower(items[j].productName))
                           \/ \E w \in SeqToSet(Split(term)) :
                                  Contains(w, Lower(items[j].serviceName)) } } ]

\* The arguments of the searches of the cascade: only the service name (or
\* the family, for the broad search), the currency and a limit are passed.
CascadeArgs(service_name, service_family, currency_code, limit) ==
    [ SearchArgs(service_name, service_family, None, None, None, limit, FALSE, 0, TRUE)
        EXCEPT !.currency_code = currency_code ]

\* Mutant of ExactSuffices: a single item does not count as a result.
ExactSuffices_NeedsMany(exact_result) == Len(exact_result.items) > 1

\* if exact_result["items"]: return exact_result (line 594)
ExactSuffices(exact_result) == exact_result.items # <<>>

\* Mutant of MappingSuffices: a single item does not count as a result.
MappingSuffices_NeedsMany(res) == Len(res.items) > 1

\* if result["items"]: ... return result (line 688)
MappingSuffices(res) == res.items # <<>>

\* Mutant of PartialSuffices: the broad search is made whatever tier 2 found.
PartialSuffices_Never(suggestions) == FALSE

\* `if not suggestions:` guards tier 3 (line 716)
PartialSuffices(suggestions) == suggestions # <<>>

\* What search_azure_prices_with_fuzzy_matching returns: a search result and
\* the keys _find_similar_services adds (match_type "none": no such key).
FuzzyResult(res, match_type, used, original, suggestions) ==
    [ res |-> res, match_type |-> match_type, suggestion_used |-> used,
      original_search |-> original, suggestions |-> suggestions ]

Unchanged(res) == FuzzyResult(res, "none", None, None, <<>>)

\* The dict of lines 749-757.
SuggestionsOnly(a, suggestions) ==
    FuzzyResult(
        [ items |-> <<>>, count |-> 0, has_more |-> FALSE, currency |-> a.currency_code,
          filters_applied |-> <<>>, hasDiscountApplied |-> FALSE, discount_applied |-> 0,
          validation |-> NoValidation ],
        "suggestions_only", None,
        IF Truthy(a.service_name) THEN a.service_name ELSE a.service_family,
        suggestions)

Suggestion(service, reason, samples) ==
    [service_name |-> service, match_reason |-> reason, sample_items |-> samples]

Min(a, b) == IF a < b THEN a ELSE b

RECURSIVE MinOfSeq(_)
MinOfSeq(s) == IF Len(s) = 1 THEN s[1] ELSE Min(s[1], MinOfSeq(Tail(s)))

RECURSIVE Positive(_)
Positive(prices) ==
    IF prices = <<>> THEN <<>>
    ELSE (IF Head(prices).price > 0 THEN <<Head(prices).price>> ELSE <<>>)
             \o Positive(Tail(prices))

\* The price samples of one SKU name, in item order (lines 806-810).
RECURSIVE PricesOf(_, _)
PricesOf(sku, items) ==
    IF items = <<>> THEN <<>>
    ELSE (IF Head(items).skuName = sku
          THEN <<[price |-> Head(items).retailPrice, unit |-> Head(items).unitOfMeasure,
                  region |-> Head(items).armRegionName]>>
          ELSE <<>>) \o PricesOf(sku, Tail(items))

\* The SKU names in the order of their first occurrence (the keys of skus).
RECURSIVE FirstOccurrences(_, _)
FirstOccurrences(items, seen) ==
    IF items = <<>> THEN <<>>
    ELSE IF Head(items).skuName \in seen THEN FirstOccurrences(Tail(items), seen)
    ELSE <<Head(items)>> \o FirstOccurrences(Tail(items), seen \cup {Head(items).skuName})

\* Mutant of RegionsOf: regions is a list that every sample is appended to.
RegionsOf_Repeated(prices) == {[i \in 1..Len(prices) |-> prices[i].region]}

\* regions of one SKU (lines 802, 811, 815): the samples' regions are added
\* to a set, which is then made a list.  The order of that list is the
\* iteration order of a Python set of str, which the hash seed of the
\* process decides: the lists that list(set) may be, every order of the
\* regions.
RegionsOf(prices) ==
    { order \in [1..Cardinality({prices[i].region : i \in 1..Len(prices)})
                    -> {prices[i].region : i \in 1..Len(prices)}] :
        \A j \in DOMAIN order : \A k \in DOMAIN order : j # k => order[j] # order[k] }

\* min_price of one SKU (lines 817-822): the cheapest sample above 0, or the
\* first sample's price when there is none.
MinPrice(prices) ==
    LET valid == Positive(prices)
    IN  IF valid # <<>> THEN MinOfSeq(valid) ELSE prices[1].price

\* Mutant of SkuAggregate: sample_unit is overwritten by every sample, and is
\* the unit of the last one.
SkuAggregate_UnitOfLastSample(first, items, regions) ==
    LET prices == PricesOf(first.skuName, items)
    IN  [ sku_name |-> first.skuName, arm_sku_name |-> first.armSkuName,
          product_name |-> first.productName, prices |-> prices,
          regions |-> regions,
          min_price |-> MinPrice(prices),
          sample_unit |-> prices[Len(prices)].unit ]

\* One value of skus (lines 797-823), `regions` being the list that
\* list(sku_data["regions"]) made.
SkuAggregate(first, items, regions) ==
    LET prices == PricesOf(first.skuName, items)
    IN  [ sku_name |-> first.skuName, arm_sku_name |-> first.armSkuName,
          product_name |-> first.productName, prices |-> prices,
          regions |-> regions,
          min_price |-> MinPrice(prices),
          sample_unit |-> prices[1].unit ]

\* The lists of regions the aggregates of items may get, one list for each
\* SKU name in the order of skus.
RegionLists(items) ==
    LET firsts == FirstOccurrences(items, {})
        lists(i) == RegionsOf(PricesOf(firsts[i].skuName, items))
    IN  { regions \in [1..Len(firsts) -> UNION {lists(i) : i \in 1..Len(firsts)}] :
            \A i \in 1..Len(firsts) : regions[i] \in lists(i) }

\* What discover_service_skus makes of the result fz of the fuzzy search
\* (lines 784-843), regions[i] being the list of regions of its i-th SKU.
DiscoverServiceSkus(hint, fz, regions) ==
    IF fz.res.items # <<>>
    THEN LET firsts == FirstOccurrences(fz.res.items, {})
             skus == [i \in 1..Len(firsts) |->
                         SkuAggregate(firsts[i], fz.res.items, regions[i])]
         IN  [ service_found |-> IF fz.match_type = "exact_mapping" THEN fz.suggestion_used ELSE hint,
               original_search |-> hint, skus |-> skus, total_skus |-> Len(skus),
               currency |-> fz.res.currency,
               match_type |-> IF fz.match_type = "none" THEN "exact" ELSE fz.match_type,
               suggestions |-> <<>> ]
    ELSE [ service_found |-> None, original_search |-> hint, skus |-> <<>>, total_skus |-> 0,
           currency |-> fz.res.currency, match_type |-> "no_match",
           suggestions |-> fz.suggestions ]

(***************************************************************************)
(* The state of the engine before any operation                            *)
(***************************************************************************)

NoSearchArgs == SearchArgs(None, None, None, None, None, 0, FALSE, 0, FALSE)
NoSearchResult == SearchResult(NoSearchArgs, NoBody, NoValidation)
NoOp == [name |-> "none", args |-> NoSearchArgs, suggest |-> FALSE]
NoLocals == [suggestions |-> <<>>, todo |-> {}, cur |-> None, left |-> 0]
NoResult == [kind |-> "none"]

InitEngVars ==
    /\ catalog = <<>>
    /\ op = NoOp
    /\ epc = "idle"
    /\ eloc = NoLocals
    /\ spc = "idle"
    /\ sargs = NoSearchArgs
    /\ sdata = NoBody
    /\ sres = NoSearchResult
    /\ qlog = <<>>
    /\ eres = NoResult

(***************************************************************************)
(* AzurePricingServer._make_request                                        *)
(***************************************************************************)

\* Mutant of MakeRequestEnter: the attempt counter is kept from one fetch
\* to the next.
MakeRequestEnter_KeepsAttempt(p, mr) ==
    /\ running = p
    /\ UNCHANGED running
    /\ max_retries' = [max_retries EXCEPT ![p] = mr]
    /\ waits' = [waits EXCEPT ![p] = <<>>]
    /\ resp' = [resp EXCEPT ![p] = <<>>]
    /\ nreq' = [nreq EXCEPT ![p] = 0]
    /\ inSess' = [inSess EXCEPT ![p] = 0]
    /\ last_exception' = [last_exception EXCEPT ![p] = NoRes]
    /\ attempt' = attempt
    /\ IF session = 0
       THEN /\ fpc' = [fpc EXCEPT ![p] = "raised"]
            /\ fres' = [fres EXCEPT ![p] =
                          [kind |-> "RuntimeError_not_initialized", status |-> 0, body |-> NoBody]]
       ELSE IF mr + 1 <= 0
       THEN \* range(max_retries + 1) is empty: falls out of the loop, returns None
            /\ fpc' = [fpc EXCEPT ![p] = "returned"]
            /\ fres' = [fres EXCEPT ![p] = [kind |-> "None", status |-> 0, body |-> NoBody]]
       ELSE /\ fpc' = [fpc EXCEPT ![p] = "attempt"]
            /\ fres' = [fres EXCEPT ![p] = NoRes]
    /\ UNCHANGED sessVars

\* if not self.session: raise RuntimeError("HTTP session not initialized")
\* last_exception = None; for attempt in range(max_retries + 1): ...
MakeRequestEnter(p, mr) ==
    /\ running = p
    /\ UNCHANGED running
    /\ max_retries' = [max_retries EXCEPT ![p] = mr]
    /\ waits' = [waits EXCEPT ![p] = <<>>]
    /\ resp' = [resp EXCEPT ![p] = <<>>]
    /\ nreq' = [nreq EXCEPT ![p] = 0]
    /\ inSess' = [inSess EXCEPT ![p] = 0]
    /\ last_exception' = [last_exception EXCEPT ![p] = NoRes]
    /\ attempt' = [attempt EXCEPT ![p] = 0]
    /\ IF session = 0
       THEN /\ fpc' = [fpc EXCEPT ![p] = "raised"]
            /\ fres' = [fres EXCEPT ![p] =
                          [kind |-> "RuntimeError_not_initialized", status |-> 0, body |-> NoBody]]
       ELSE IF mr + 1 <= 0
       THEN \* range(max_retries + 1) is empty: falls out of the loop, returns None
            /\ fpc' = [fpc EXCEPT ![p] = "returned"]
            /\ fres' = [fres EXCEPT ![p] = [kind |-> "None", status |-> 0, body |-> NoBody]]
       ELSE /\ fpc' = [fpc EXCEPT ![p] = "attempt"]
            /\ fres' = [fres EXCEPT ![p] = NoRes]
    /\ UNCHANGED sessVars

\* async with self.session.get(url, params=params): the request leaves on the
\* session that self.session names now; a closed session raises RuntimeError
\* ("Session is closed"), which the `except Exception` clause re-raises.
MakeRequestSend(p) ==
    /\ fpc[p] = "attempt"
    /\ running = p
    /\ IF sessState[session] = "closed"
       THEN /\ running' = p
            /\ fpc' = [fpc EXCEPT ![p] = "raised"]
            /\ fres' = [fres EXCEPT ![p] =
                          [kind |-> "RuntimeError_session_closed", status |-> 0, body |-> NoBody]]
            /\ UNCHANGED <<nreq, inSess>>
       ELSE \* the coroutine is suspended until the answer arrives
            /\ running' = 0
            /\ fpc' = [fpc EXCEPT ![p] = "inflight"]
            /\ nreq' = [nreq EXCEPT ![p] = @ + 1]
            /\ inSess' = [inSess EXCEPT ![p] = session]
            /\ UNCHANGED fres
    /\ UNCHANGED <<attempt, max_retries, last_exception, waits, resp>>
    /\ UNCHANGED sessVars

\* The exception the handlers of lines 77-92 re-raise for answer r.
RaisedFor(r) ==
    IF IsHttp(r)
    THEN [kind |-> "ClientResponseError", status |-> r.status, body |-> NoBody]
    ELSE [kind |-> r.kind, status |-> 0, body |-> NoBody]

\* Mutant of RetriesOn: server errors (5xx) are retried as well.
RetriesOn_ServerErrors(r, a, mr) ==
    IsHttp(r) /\ (r.status = 429 \/ r.status >= 500) /\ a < mr

\* Whether answer r in iteration a makes the loop wait and continue:
\* status 429 with attempt < max_retries (line 64-69; the same test guards the
\* except clause of lines 78-83).
RetriesOn(r, a, mr) == IsHttp(r) /\ r.status = 429 /\ a < mr

\* return await response.json() once it is over (line 75): the decoded body
\* is returned, or the ContentTypeError of json() reaches the clause of
\* lines 77-86, which re-raises it (its status passed raise_for_status, so
\* it is not 429).
MakeRequestJsonOver(p, r) ==
    /\ running' = p
    /\ IF r.kind = "http_nonjson"
       THEN /\ fpc' = [fpc EXCEPT ![p] = "raised"]
            /\ fres' = [fres EXCEPT ![p] = RaisedFor(r)]
       ELSE /\ fpc' = [fpc EXCEPT ![p] = "returned"]
            /\ fres' = [fres EXCEPT ![p] = [kind |-> "ok", status |-> r.status, body |-> r.body]]

\* The body of one loop iteration once the answer r has arrived (lines
\* 63-92). `await response.json()` is over at once when the body has been
\* read already and suspends the coroutine otherwise (yields): which of the
\* two happens is up to aiohttp and the network.
MakeRequestRecv(p, r, yields) ==
    /\ fpc[p] = "inflight"
    /\ running = 0
    /\ resp' = [resp EXCEPT ![p] = Append(@, r)]
    /\ IF RetriesOn(r, attempt[p], max_retries[p])
       THEN \* await asyncio.sleep(wait_time); continue
            /\ running' = 0
            /\ waits' = [waits EXCEPT ![p] = Append(@, WaitTime(attempt[p]))]
            /\ fpc' = [fpc EXCEPT ![p] = "sleeping"]
            /\ UNCHANGED fres
       ELSE IF IsHttp(r) /\ ~RaisesForStatus(r.status)
       THEN \* return await response.json()
            /\ IF yields
               THEN /\ running' = 0
                    /\ fpc' = [fpc EXCEPT ![p] = "json"]
                    /\ UNCHANGED fres
               ELSE MakeRequestJsonOver(p, r)
            /\ UNCHANGED waits
       ELSE \* raise
            /\ running' = p
            /\ fpc' = [fpc EXCEPT ![p] = "raised"]
            /\ fres' = [fres EXCEPT ![p] = RaisedFor(r)]
            /\ UNCHANGED waits
    /\ UNCHANGED <<attempt, max_retries, last_exception, nreq, inSess>>
    /\ UNCHANGED sessVars

\* The coroutine suspended in `await response.json()` is resumed with the
\* outcome of json() for the response it received last.
MakeRequestJson(p) ==
    /\ fpc[p] = "json"
    /\ running = 0
    /\ MakeRequestJsonOver(p, resp[p][Len(resp[p])])
    /\ UNCHANGED <<attempt, max_retries, last_exception, waits, resp, nreq, inSess>>
    /\ UNCHANGED sessVars

\* asyncio.sleep is over: the next value of range(max_retries + 1), or the
\* code after the loop (lines 94-96) when the range is used up.
MakeRequestWake(p) ==
    /\ fpc[p] = "sleeping"
    /\ running = 0
    /\ running' = p
    /\ IF attempt[p] + 1 <= max_retries[p]
       THEN /\ attempt' = [attempt EXCEPT ![p] = @ + 1]
            /\ fpc' = [fpc EXCEPT ![p] = "attempt"]
            /\ UNCHANGED fres
       ELSE /\ UNCHANGED attempt
            /\ IF last_exception[p] # NoRes
               THEN /\ fpc' = [fpc EXCEPT ![p] = "raised"]
                    /\ fres' = [fres EXCEPT ![p] = last_exception[p]]
               ELSE /\ fpc' = [fpc EXCEPT ![p] = "returned"]
                    /\ fres' = [fres EXCEPT ![p] = [kind |-> "None", status |-> 0, body |-> NoBody]]
    /\ UNCHANGED <<max_retries, last_exception, waits, resp, nreq, inSess>>
    /\ UNCHANGED sessVars

(***************************************************************************)
(* One fetch in isolation: _make_request called once by process 1, with    *)
(* every max_retries up to MaxRetriesArg and every sequence of answers.    *)
(***************************************************************************)

\* The default of the max_retries parameter.
DefaultMaxRetries == 3

\* The largest max_retries argument explored.
MaxRetriesArg == 3

\* The HTTP statuses the upstream answers with.
FetchStatuses == {200, 429, 400, 404, 500, 503}

\* The envelopes the upstream answers with in the single-fetch specification.
FetchBodies ==
    { [Items |-> <<>>, NextPageLink |-> FALSE],
      [Items |-> <<1>>, NextPageLink |-> TRUE] }

FetchAnswers ==
    {HttpResponse(st, b) : st \in FetchStatuses, b \in FetchBodies}
        \cup {NonJsonResponse(st) : st \in FetchStatuses}
        \cup {TransportFailure, OtherFailure}

InitFetchVars ==
    /\ fpc = [p \in Procs |-> "idle"]
    /\ attempt = [p \in Procs |-> 0]
    /\ max_retries = [p \in Procs |-> DefaultMaxRetries]
    /\ last_exception = [p \in Procs |-> NoRes]
    /\ waits = [p \in Procs |-> <<>>]
    /\ resp = [p \in Procs |-> <<>>]
    /\ nreq = [p \in Procs |-> 0]
    /\ inSess = [p \in Procs |-> 0]
    /\ fres = [p \in Procs |-> NoRes]

NoOut == [kind |-> "none", exc |-> NoRes, text |-> <<>>]

\* The record of a caller that has called nothing before.
NoHist ==
    [ run |-> 1, answers |-> <<>>, first |-> [kind |-> "none"], firstAnswers |-> <<>>,
      firstQueries |-> <<>> ]

InitToolVars ==
    /\ hist = NoHist
    /\ tpc = [p \in Procs |-> "idle"]
    /\ tool = [p \in Procs |-> [name |-> "", argsOk |-> TRUE, regions |-> FALSE]]
    /\ subq = [p \in Procs |-> 0]
    /\ mySess = [p \in Procs |-> 0]
    /\ bodyOut = [p \in Procs |-> NoOut]
    /\ result = [p \in Procs |-> <<>>]

\* The session field when the fetch is called: None (no scope entered yet),
\* an open session (inside a scope), or a closed one (after a scope exited).
InitFetch ==
    /\ InitFetchVars
    /\ InitToolVars
    /\ InitEngVars
    /\ running = 1
    /\ \E s \in {"none", "open", "closed"} :
          /\ session = IF s = "none" THEN 0 ELSE 1
          /\ sessState = IF s = "none" THEN <<>> ELSE <<s>>

FetchCall ==
    /\ fpc[1] = "idle"
    /\ \E mr \in 0..MaxRetriesArg : MakeRequestEnter(1, mr)
    /\ UNCHANGED <<toolVars, engVars>>

FetchSend == MakeRequestSend(1) /\ UNCHANGED <<toolVars, engVars>>

FetchRecv ==
    /\ \E r \in FetchAnswers : \E yields \in BOOLEAN : MakeRequestRecv(1, r, yields)
    /\ UNCHANGED <<toolVars, engVars>>

FetchJson == MakeRequestJson(1) /\ UNCHANGED <<toolVars, engVars>>

FetchWake == MakeRequestWake(1) /\ UNCHANGED <<toolVars, engVars>>

NextFetch == FetchCall \/ FetchSend \/ FetchRecv \/ FetchJson \/ FetchWake

SpecFetch == InitFetch /\ [][NextFetch]_vars

(***************************************************************************)
(* handle_call_tool on the module-level pricing_server                     *)
(*                                                                         *)
(* Every invocation is a coroutine of the one event loop: it runs until it *)
(* awaits the network (session.get) or asyncio.sleep, and only then can    *)
(* another invocation run (`running`).                                     *)
(***************************************************************************)

\* The tools handle_call_tool dispatches on.
ToolNames ==
    { "azure_price_search", "azure_price_compare", "azure_cost_estimate",
      "azure_discover_skus", "azure_sku_discovery", "get_customer_discount" }

\* A name that is none of them.
UnknownNames == {"no_such_tool"}

\* The operations that query the upstream (get_customer_discount does not).
FetchingTools == ToolNames \ {"get_customer_discount"}

\* The calls explored: every name; arguments the operation accepts or not
\* (**arguments raising TypeError); compare_prices with or without `regions`.
ToolCalls ==
    {[name |-> n, argsOk |-> a, regions |-> FALSE] : n \in ToolNames, a \in BOOLEAN}
        \cup {[name |-> "azure_price_compare", argsOk |-> TRUE, regions |-> TRUE]}
        \cup {[name |-> n, argsOk |-> TRUE, regions |-> FALSE] : n \in UnknownNames}

\* How far subq counts the sub-queries of one invocation: to the largest
\* number an operation's own limit asks about (MaySubQuery). An operation
\* with no limit issues any number of them, and subq stays at MaxSubQ.
MaxSubQ == 2

\* The count of sub-queries after one more.
OneMoreSubQuery(n) == IF n < MaxSubQ THEN n + 1 ELSE n

\* Whether the operation can issue one more sub-query after n of them, the
\* last of which returned r. search_azure_prices issues the exact query and,
\* when no item is left after the cut to `limit` (lines 146-151), at most one
\* validation re-query: with the limit of the caller (0 or less leaves none
\* of a short answer) in azure_price_search, with limit=5, which leaves an
\* item of every answer that has one, in estimate_costs. discover_skus
\* issues one query, compare_prices one query in SKU mode; with
\* `regions` compare_prices issues one per region of the list, and
\* discover_service_skus one per tier and per partial match of its cascade,
\* as many as the input and the answers ask for.
MaySubQuery(t, n, r) ==
    IF t.name = "azure_price_search" THEN n < 2
    ELSE IF t.name = "azure_cost_estimate" THEN n < 2 /\ r.body.Items = <<>>
    ELSE IF t.name = "azure_discover_skus" THEN n < 1
    ELSE IF t.name = "azure_price_compare" /\ ~t.regions THEN n < 1
    ELSE TRUE

\* compare_prices, region mode: `except Exception` inside the loop logs the
\* failure of a region's search and goes on to the next region.
Swallows(t) == t.name = "azure_price_compare" /\ t.regions

\* The answers of the upstream in the tool-level specification: a 200 with
\* no item or with one, a 200 that is not JSON, and failures.
ToolAnswers ==
    { HttpResponse(200, NoBody), HttpResponse(200, [Items |-> <<1>>, NextPageLink |-> FALSE]),
      NonJsonResponse(200), HttpResponse(429, NoBody), HttpResponse(500, NoBody),
      TransportFailure }

Returned(txt) == [kind |-> "return", exc |-> NoRes, text |-> txt]
Raised(e)     == [kind |-> "exc", exc |-> e, text |-> <<>>]

\* TypeError of operation(**arguments); a fault while the result is formatted.
TypeError     == [kind |-> "TypeError", status |-> 0, body |-> NoBody]
\* 'NoneType' object has no attribute 'lower'
AttributeError == [kind |-> "AttributeError", status |-> 0, body |-> NoBody]
InternalFault == [kind |-> "InternalFault", status |-> 0, body |-> NoBody]

\* [TextContent(type="text", text=...)]
TextResult(txt) == <<[type |-> "text", text |-> txt]>>

\* Mutant of Catches: the handler catches only aiohttp errors.
Catches_OnlyClientErrors(e) == e.kind \in {"ClientResponseError", "ClientError"}

\* except Exception as e: every exception of the body is caught.
Catches(e) == TRUE

InitTool ==
    /\ InitFetchVars
    /\ InitToolVars
    /\ InitEngVars
    /\ running = 0
    /\ session = 0
    /\ sessState = <<>>

\* handle_call_tool(name, arguments) starts; async with pricing_server:
\* __aenter__ stores a new ClientSession in pricing_server.session.
CallTool(p) ==
    /\ tpc[p] = "idle"
    /\ running = 0
    /\ \E t \in ToolCalls : tool' = [tool EXCEPT ![p] = t]
    /\ sessState' = Append(sessState, "open")
    /\ session' = Len(sessState) + 1
    /\ mySess' = [mySess EXCEPT ![p] = Len(sessState) + 1]
    /\ tpc' = [tpc EXCEPT ![p] = "body"]
    /\ running' = p
    /\ UNCHANGED <<fetchVars, subq, bodyOut, result, engVars, hist>>

\* The branches of the body that issue no fetch: an unknown name,
\* get_customer_discount, or arguments the operation does not accept.
ToolNoFetch(p) ==
    /\ tpc[p] = "body"
    /\ running = p
    /\ \/ tool[p].name \notin FetchingTools
       \/ ~tool[p].argsOk
    /\ bodyOut' = [bodyOut EXCEPT ![p] =
          IF tool[p].name \notin ToolNames
          THEN Returned(<<"Unknown tool: ", tool[p].name>>)
          ELSE IF ~tool[p].argsOk THEN Raised(TypeError)
          ELSE Returned(<<"Response of ", tool[p].name>>)]
    /\ tpc' = [tpc EXCEPT ![p] = "exit"]
    /\ UNCHANGED <<sessVars, fetchVars, running, tool, subq, mySess, result, engVars, hist>>

\* The operation issues its first query.
ToolFirstQuery(p) ==
    /\ tpc[p] = "body"
    /\ tool[p].name \in FetchingTools
    /\ tool[p].argsOk
    /\ MakeRequestEnter(p, DefaultMaxRetries)
    /\ tpc' = [tpc EXCEPT ![p] = "op"]
    /\ subq' = [subq EXCEPT ![p] = 1]
    /\ UNCHANGED <<tool, mySess, bodyOut, result, engVars, hist>>

ToolSend(p) == tpc[p] = "op" /\ MakeRequestSend(p) /\ UNCHANGED <<toolVars, engVars>>

ToolRecv(p) ==
    /\ tpc[p] = "op"
    /\ \E r \in ToolAnswers : \E yields \in BOOLEAN : MakeRequestRecv(p, r, yields)
    /\ UNCHANGED <<toolVars, engVars>>

ToolJson(p) == tpc[p] = "op" /\ MakeRequestJson(p) /\ UNCHANGED <<toolVars, engVars>>

ToolWake(p) == tpc[p] = "op" /\ MakeRequestWake(p) /\ UNCHANGED <<toolVars, engVars>>

\* The operation returns to the handler or raises: its frame and the frame of
\* its last fetch, with their locals, are gone.
OperationOver(p) ==
    /\ fpc' = [fpc EXCEPT ![p] = "idle"]
    /\ attempt' = [attempt EXCEPT ![p] = 0]
    /\ max_retries' = [max_retries EXCEPT ![p] = DefaultMaxRetries]
    /\ last_exception' = [last_exception EXCEPT ![p] = NoRes]
    /\ waits' = [waits EXCEPT ![p] = <<>>]
    /\ resp' = [resp EXCEPT ![p] = <<>>]
    /\ nreq' = [nreq EXCEPT ![p] = 0]
    /\ inSess' = [inSess EXCEPT ![p] = 0]
    /\ fres' = [fres EXCEPT ![p] = NoRes]
    /\ subq' = [subq EXCEPT ![p] = 0]

\* The operation goes on after a sub-query: its fetch returned, or it raised
\* inside the try of compare_prices' region loop.
GoesOn(p) ==
    /\ tpc[p] = "op"
    /\ running = p
    /\ \/ fpc[p] = "returned"
       \/ fpc[p] = "raised" /\ Swallows(tool[p])

\* ... with another sub-query
ToolNextQuery(p) ==
    /\ GoesOn(p)
    /\ MaySubQuery(tool[p], subq[p], fres[p])
    /\ MakeRequestEnter(p, DefaultMaxRetries)
    /\ subq' = [subq EXCEPT ![p] = OneMoreSubQuery(@)]
    /\ UNCHANGED <<tpc, tool, mySess, bodyOut, result, engVars, hist>>

\* ... or with its result, which the handler formats.
\* notFound: estimate_costs returns {"error": ...} when its search has no
\* item (lines 405-411), and the handler returns the text "Error: " and that
\* message, with no exception (lines 1192-1198). The items of the search are
\* those of its first query; a second query was issued only because the
\* first found none.
\* mayFault: after its fetch the operation, or the handler, may raise on an
\* argument or an item of a type it does not expect (discount_percentage > 0
\* at lines 161 and 358, sku_name.lower() at 206, service_name.lower() at
\* 677, item.get at 531). Two paths run no such code: estimate_costs whose
\* only query found no item returns its error at once (405-411), and
\* discover_skus with no item skips its loop (530-556).
ToolFinish(p) ==
    /\ GoesOn(p)
    /\ LET notFound == /\ tool[p].name = "azure_cost_estimate"
                       /\ (subq[p] = 2 \/ fres[p].body.Items = <<>>)
           mayFault == IF tool[p].name = "azure_cost_estimate"
                       THEN subq[p] = 2 \/ fres[p].body.Items # <<>>
                       ELSE IF tool[p].name = "azure_discover_skus"
                       THEN fres[p].body.Items # <<>>
                       ELSE TRUE
       IN  \E fault \in {FALSE, mayFault} :
              bodyOut' = [bodyOut EXCEPT ![p] =
                  IF fault THEN Raised(InternalFault)
                  ELSE IF notFound THEN Returned(<<"Error: ", "No pricing found">>)
                  ELSE Returned(<<"Response of ", tool[p].name>>)]
    /\ tpc' = [tpc EXCEPT ![p] = "exit"]
    /\ OperationOver(p)
    /\ UNCHANGED <<sessVars, running, tool, mySess, result, engVars, hist>>

\* The exception of a fetch leaves the operation.
ToolPropagate(p) ==
    /\ tpc[p] = "op"
    /\ running = p
    /\ fpc[p] = "raised"
    /\ ~Swallows(tool[p])
    /\ bodyOut' = [bodyOut EXCEPT ![p] = Raised(fres[p])]
    /\ tpc' = [tpc EXCEPT ![p] = "exit"]
    /\ OperationOver(p)
    /\ UNCHANGED <<sessVars, running, tool, mySess, result, engVars, hist>>

\* __aexit__: if self.session: await self.session.close(). The session that
\* self.session names now is closed; close() is over at once or suspends the
\* invocation (yields), which is up to aiohttp.
ToolExit(p) ==
    /\ tpc[p] = "exit"
    /\ running = p
    /\ sessState' = IF session # 0
                    THEN [sessState EXCEPT ![session] = "closed"]
                    ELSE sessState
    /\ \E yields \in BOOLEAN :
          IF yields /\ session # 0
          THEN running' = 0 /\ tpc' = [tpc EXCEPT ![p] = "closing"]
          ELSE running' = p /\ tpc' = [tpc EXCEPT ![p] = "return"]
    /\ UNCHANGED <<session, fetchVars, tool, subq, mySess, bodyOut, result, engVars, hist>>

\* The invocation suspended in `await self.session.close()` is resumed.
ToolClosed(p) ==
    /\ tpc[p] = "closing"
    /\ running = 0
    /\ running' = p
    /\ tpc' = [tpc EXCEPT ![p] = "return"]
    /\ UNCHANGED <<sessVars, fetchVars, tool, subq, mySess, bodyOut, result, engVars, hist>>

\* return [...] of the body, or except Exception as e: return "Error: ..."
ToolReturn(p) ==
    /\ tpc[p] = "return"
    /\ running = p
    /\ IF bodyOut[p].kind = "exc"
       THEN IF Catches(bodyOut[p].exc)
            THEN /\ result' = [result EXCEPT ![p] =
                                 TextResult(<<"Error: ", bodyOut[p].exc.kind>>)]
                 /\ tpc' = [tpc EXCEPT ![p] = "done"]
            ELSE /\ result' = result
                 /\ tpc' = [tpc EXCEPT ![p] = "escaped"]
       ELSE /\ result' = [result EXCEPT ![p] = TextResult(bodyOut[p].text)]
            /\ tpc' = [tpc EXCEPT ![p] = "done"]
    /\ running' = 0
    /\ UNCHANGED <<sessVars, fetchVars, tool, subq, mySess, bodyOut, engVars, hist>>

Step(p) ==
    \/ CallTool(p)
    \/ ToolNoFetch(p)
    \/ ToolFirstQuery(p)
    \/ ToolSend(p)
    \/ ToolRecv(p)
    \/ ToolJson(p)
    \/ ToolWake(p)
    \/ ToolNextQuery(p)
    \/ ToolFinish(p)
    \/ ToolPropagate(p)
    \/ ToolExit(p)
    \/ ToolClosed(p)
    \/ ToolReturn(p)

Next == \E p \in Procs : Step(p)

\* Invocations of the tool handler as the host starts them: any two may overlap.
Spec == InitTool /\ [][Next]_vars

\* The same with no two invocations overlapping: an invocation starts only
\* when no other is between its start and its return.
NextSeq ==
    \E p \in Procs :
        /\ \A q \in Procs \ {p} : tpc[q] \in {"idle", "done"}
        /\ Step(p)

SpecSeq == InitTool /\ [][NextSeq]_vars

(***************************************************************************)
(* The engine operations as a coroutine (process EP) inside one session    *)
(* scope: the operation (epc) awaits searches (spc), a search awaits       *)
(* fetches (fpc).                                                          *)
(***************************************************************************)

EP == 1

\* The engine is called with operation o against the catalog c, inside
\* `async with pricing_server` (the session is open).
InitEngine(c, o) ==
    /\ InitFetchVars
    /\ InitToolVars
    /\ running = EP
    /\ session = 1
    /\ sessState = <<"open">>
    /\ catalog = c
    /\ op = o
    /\ epc = "start"
    /\ eloc = NoLocals
    /\ spc = "idle"
    /\ sargs = NoSearchArgs
    /\ sdata = NoBody
    /\ sres = NoSearchResult
    /\ qlog = <<>>
    /\ eres = NoResult

\* The parameters of the request of the fetch under way.
CurParams == qlog[Len(qlog)].params

\* What the upstream may answer to it: the envelope of the catalog (cut to
\* $top or not), 429, a server error, a transport failure.
EngineAnswers ==
    { HttpResponse(200, UpstreamBody(catalog, CurParams, h)) : h \in BOOLEAN }
        \cup { NonJsonResponse(200), HttpResponse(429, NoBody), HttpResponse(500, NoBody),
               TransportFailure }

\* await self.search_azure_prices(...) with arguments a, by the part `tier`
\* of the operation: the filter and the parameters are built and the request
\* is handed to _make_request (lines 112-140).
CallSearch(a, tier) ==
    /\ sargs' = a
    /\ spc' = "exact"
    /\ sdata' = NoBody
    /\ sres' = sres
    /\ qlog' = Append(qlog, [tier |-> tier, params |-> Params(a)])
    /\ MakeRequestEnter(EP, DefaultMaxRetries)

\* A step of the operation that awaits nothing.
NoCall ==
    /\ spc' = "idle"
    /\ UNCHANGED <<sargs, sdata, sres, qlog, sessVars, fetchVars, running>>

EngineSend ==
    /\ spc \in {"exact", "validate", "direct"}
    /\ MakeRequestSend(EP)
    /\ UNCHANGED <<toolVars, engVars>>

EngineRecv ==
    /\ spc \in {"exact", "validate", "direct"}
    /\ \E r \in EngineAnswers : \E yields \in BOOLEAN : MakeRequestRecv(EP, r, yields)
    /\ UNCHANGED <<toolVars, engVars>>

EngineJson ==
    /\ spc \in {"exact", "validate", "direct"}
    /\ MakeRequestJson(EP)
    /\ UNCHANGED <<toolVars, engVars>>

EngineWake ==
    /\ spc \in {"exact", "validate", "direct"}
    /\ MakeRequestWake(EP)
    /\ UNCHANGED <<toolVars, engVars>>

\* search_azure_prices after its fetch returned (lines 142-183); for the
\* search that found no item of the SKU, _validate_and_suggest_skus and its
\* own search of the service (lines 196-203) come first.
SearchReturned ==
    /\ running = EP
    /\ fpc[EP] = "returned"
    /\ spc \in {"exact", "validate"}
    /\ IF spc = "exact"
       THEN LET data == fres[EP].body
                items == Truncate(data.Items, sargs.limit)
            IN  IF NeedsValidation(sargs, items) /\ Truthy(sargs.service_name)
                THEN /\ spc' = "validate"
                     /\ sdata' = data
                     /\ qlog' = Append(qlog,
                            [ tier |-> "validation",
                              params |-> Params(BroadSearchArgs(sargs.service_name,
                                                                sargs.currency_code)) ])
                     /\ MakeRequestEnter(EP, DefaultMaxRetries)
                     /\ UNCHANGED <<sargs, sres>>
                ELSE /\ spc' = "done"
                     /\ sdata' = data
                     /\ sres' = SearchResult(sargs, data,
                            IF NeedsValidation(sargs, items)
                            THEN SkuValidation(sargs.sku_name, <<>>)
                            ELSE IF NeedsClarification(sargs, items)
                            THEN Clarification(items)
                            ELSE NoValidation)
                     /\ UNCHANGED <<sargs, qlog, sessVars, fetchVars, running>>
       ELSE LET bargs == BroadSearchArgs(sargs.service_name, sargs.currency_code)
                broad == SearchResult(bargs, fres[EP].body, NoValidation)
            IN  IF NeedsValidation(bargs, Truncate(fres[EP].body.Items, bargs.limit))
                   /\ Truthy(bargs.service_name)
                THEN \* the search of the validation validates in its turn
                     /\ spc' = "validate"
                     /\ qlog' = Append(qlog, [tier |-> "validation", params |-> Params(bargs)])
                     /\ MakeRequestEnter(EP, DefaultMaxRetries)
                     /\ UNCHANGED <<sargs, sdata, sres>>
                ELSE /\ spc' = "done"
                     /\ sres' = SearchResult(sargs, sdata,
                                             SkuValidation(sargs.sku_name, broad.items))
                     /\ UNCHANGED <<sargs, sdata, qlog, sessVars, fetchVars, running>>
    /\ UNCHANGED <<catalog, op, epc, eloc, eres, toolVars>>

\* The exception of the fetch leaves search_azure_prices.
SearchRaised ==
    /\ running = EP
    /\ fpc[EP] = "raised"
    /\ spc \in {"exact", "validate"}
    /\ spc' = "failed"
    /\ UNCHANGED <<catalog, op, epc, eloc, sargs, sdata, sres, qlog, eres>>
    /\ UNCHANGED <<sessVars, fetchVars, running, toolVars>>

\* The operation starts: search_azure_prices itself, or the exact search of
\* search_azure_prices_with_fuzzy_matching (lines 583-591), which
\* discover_service_skus calls with its hint as service_name (lines 777-782).
EngineStart ==
    /\ epc = "start"
    /\ op.name \in {"search", "fuzzy", "discover_service_skus"}
    /\ CallSearch(op.args, "exact")
    /\ epc' = IF op.name = "search" THEN "search" ELSE "fz_exact"
    /\ UNCHANGED <<catalog, op, eloc, eres, toolVars>>

\* search_azure_prices returns to the caller of the engine.
SearchDone ==
    /\ epc = "search"
    /\ spc = "done"
    /\ eres' = [kind |-> "search", val |-> sres]
    /\ epc' = "returned"
    /\ NoCall
    /\ UNCHANGED <<catalog, op, eloc, toolVars>>

\* Mutant of CatchesInLoop: the try block spans both branches of compare_prices.
CatchesInLoop_BothModes(pc) == pc \in {"cmp_region", "cmp_skus"}

\* Where the exception of an awaited search is caught inside the engine:
\* by the try/except of the region loop of compare_prices (lines 310-331).
CatchesInLoop(pc) == pc = "cmp_region"

\* The exception of a search leaves the operation (in the region loop of
\* compare_prices it is caught: CompareRegionFailed).
EngineRaised ==
    /\ epc \notin {"idle", "start", "returned", "raised"}
    /\ ~CatchesInLoop(epc)
    /\ spc = "failed"
    /\ eres' = [kind |-> "exc", val |-> fres[EP]]
    /\ epc' = "raised"
    /\ NoCall
    /\ UNCHANGED <<catalog, op, eloc, toolVars>>

\* The fuzzy search returns fz; discover_service_skus aggregates it.
FuzzyReturn(fz) ==
    /\ IF op.name = "discover_service_skus"
       THEN \E regions \in RegionLists(fz.res.items) :
               eres' = [kind |-> "skus",
                        val |-> DiscoverServiceSkus(op.args.service_name, fz, regions)]
       ELSE eres' = [kind |-> "fuzzy", val |-> fz]
    /\ epc' = "returned"
    /\ eloc' = eloc
    /\ NoCall

\* Tier 3 begins: the broad search (lines 717-721).
EnterTier3 ==
    /\ CallSearch(CascadeArgs(None, op.args.service_family, op.args.currency_code, 100),
                  "tier3_broad")
    /\ epc' = "fz_broad"
    /\ eloc' = NoLocals
    /\ eres' = eres

\* Tier 2 begins (lines 695-706): the first service of set(partial_matches),
\* in the order of the set, is searched; with no partial match, tier 3.
EnterTier2 ==
    LET pm == PartialMatches(SearchTerm(op.args.service_name))
    IN  IF pm # {}
        THEN \E svc \in pm :
                /\ CallSearch(CascadeArgs(svc, None, op.args.currency_code, 5), "tier2")
                /\ epc' = "fz_tier2"
                /\ eloc' = [suggestions |-> <<>>, todo |-> pm \ {svc}, cur |-> svc, left |-> 0]
                /\ eres' = eres
        ELSE EnterTier3

\* Lines 593-606, and lines 676-686 of _find_similar_services.
FuzzyAfterExact ==
    /\ epc = "fz_exact"
    /\ spc = "done"
    /\ IF ExactSuffices(sres)
       THEN FuzzyReturn(Unchanged(sres))
       ELSE IF op.suggest /\ (Truthy(op.args.service_name) \/ Truthy(op.args.service_family))
       THEN IF InMappings(SearchTerm(op.args.service_name))
            THEN /\ CallSearch(CascadeArgs(MappedService(SearchTerm(op.args.service_name)),
                                           None, op.args.currency_code, op.args.limit),
                               "tier1")
                 /\ epc' = "fz_tier1"
                 /\ eloc' = eloc
                 /\ eres' = eres
            ELSE EnterTier2
       ELSE FuzzyReturn(Unchanged(sres))
    /\ UNCHANGED <<catalog, op, toolVars>>

\* Lines 688-692.
FuzzyAfterTier1 ==
    /\ epc = "fz_tier1"
    /\ spc = "done"
    /\ IF MappingSuffices(sres)
       THEN FuzzyReturn(FuzzyResult(sres, "exact_mapping",
                                    MappedService(SearchTerm(op.args.service_name)),
                                    op.args.service_name, <<>>))
       ELSE EnterTier2
    /\ UNCHANGED <<catalog, op, toolVars>>

\* Lines 708-716: the suggestion of the service searched, then the next
\* service of the set, or tier 3, or the return of the suggestions.
FuzzyAfterTier2 ==
    /\ epc = "fz_tier2"
    /\ spc = "done"
    /\ LET suggestions ==
              IF sres.items # <<>>
              THEN Append(eloc.suggestions,
                          Suggestion(eloc.cur, "Partial match", PySlice(sres.items, 3)))
              ELSE eloc.suggestions
       IN  IF eloc.todo # {}
           THEN \E svc \in eloc.todo :
                   /\ CallSearch(CascadeArgs(svc, None, op.args.currency_code, 5), "tier2")
                   /\ epc' = epc
                   /\ eloc' = [suggestions |-> suggestions, todo |-> eloc.todo \ {svc},
                               cur |-> svc, left |-> 0]
                   /\ eres' = eres
           ELSE IF PartialSuffices(suggestions)
           THEN FuzzyReturn(SuggestionsOnly(op.args, suggestions))
           ELSE EnterTier3
    /\ UNCHANGED <<catalog, op, toolVars>>

\* Lines 723-740: the services of the broad result that match, at most 5 of
\* them in the order of the set, are searched one after the other; the
\* AttributeError of a null name leaves the operation.
FuzzyAfterBroad ==
    /\ epc = "fz_broad"
    /\ spc = "done"
    /\ LET matching == MatchingServices(SearchTerm(op.args.service_name), sres.items)
           ms == matching.services
       IN  IF matching.raises
           THEN /\ eres' = [kind |-> "exc", val |-> AttributeError]
                /\ epc' = "raised"
                /\ eloc' = eloc
                /\ NoCall
           ELSE IF ms # {}
           THEN \E svc \in ms :
                   /\ CallSearch(CascadeArgs(svc, None, op.args.currency_code, 3), "tier3")
                   /\ epc' = "fz_tier3"
                   /\ eloc' = [suggestions |-> <<>>, todo |-> ms \ {svc}, cur |-> svc,
                               left |-> Min(5, Cardinality(ms)) - 1]
                   /\ eres' = eres
           ELSE FuzzyReturn(SuggestionsOnly(op.args, <<>>))
    /\ UNCHANGED <<catalog, op, toolVars>>

\* Lines 742-757.
FuzzyAfterTier3 ==
    /\ epc = "fz_tier3"
    /\ spc = "done"
    /\ LET suggestions ==
              IF sres.items # <<>>
              THEN Append(eloc.suggestions,
                          Suggestion(eloc.cur, "Contains", PySlice(sres.items, 2)))
              ELSE eloc.suggestions
       IN  IF eloc.left > 0
           THEN \E svc \in eloc.todo :
                   /\ CallSearch(CascadeArgs(svc, None, op.args.currency_code, 3), "tier3")
                   /\ epc' = epc
                   /\ eloc' = [suggestions |-> suggestions, todo |-> eloc.todo \ {svc},
                               cur |-> svc, left |-> eloc.left - 1]
                   /\ eres' = eres
           ELSE FuzzyReturn(SuggestionsOnly(op.args, suggestions))
    /\ UNCHANGED <<catalog, op, toolVars>>


(***************************************************************************)
(* search_azure_prices called once, with every combination of the          *)
(* arguments below, against every catalog.                                 *)
(***************************************************************************)

Str_Z9 == <<"Z", "9">>

SearchLimits == {-1, 0, 1, MAX_RESULTS_PER_REQUEST}

SearchCalls ==
    { [name |-> "search", suggest |-> FALSE,
       args |-> SearchArgs(svc, None, region, sku, None, limit, d[1], d[2], validate)] :
        svc \in {None, Svc_VirtualMachines}, region \in {None, Str_eastus},
        sku \in {None, Str_D2, Str_Z9}, limit \in SearchLimits,
        d \in {<<FALSE, 0>>, <<TRUE, 10>>}, validate \in BOOLEAN }

InitSearch == \E c \in Catalogs \cup {BulkCatalog} : \E o \in SearchCalls : InitEngine(c, o)

NextSearch ==
    \/ EngineStart
    \/ EngineSend
    \/ EngineRecv
    \/ EngineJson
    \/ EngineWake
    \/ SearchReturned
    \/ SearchRaised
    \/ SearchDone
    \/ EngineRaised

SpecSearch == InitSearch /\ [][NextSearch]_vars

\* The event loop runs a coroutine that is ready, the upstream answers every
\* request and every asyncio.sleep ends.
LiveCalls ==
    { [name |-> "search", suggest |-> FALSE,
       args |-> SearchArgs(svc, None, Str_eastus, sku, None, MAX_RESULTS_PER_REQUEST,
                           FALSE, 0, validate)] :
        svc \in {None, Svc_VirtualMachines}, sku \in {Str_D2, Str_Z9}, validate \in BOOLEAN }

InitSearchLive == \E c \in Catalogs : \E o \in LiveCalls : InitEngine(c, o)

SpecSearchLive == InitSearchLive /\ [][NextSearch]_vars /\ WF_vars(NextSearch)

(***************************************************************************)
(* search_azure_prices called twice with the same arguments by one caller, *)
(* on the same AzurePricingServer object, against an upstream that gives   *)
(* the second call the answers it gave the first.                          *)
(***************************************************************************)

TwiceCalls ==
    { [name |-> "search", suggest |-> FALSE,
       args |-> SearchArgs(Svc_VirtualMachines, None, region, sku, None, limit, d[1], d[2], TRUE)] :
        region \in {None, Str_eastus}, sku \in {Str_D2, Str_Z9},
        limit \in {1, MAX_RESULTS_PER_REQUEST}, d \in {<<FALSE, 0>>, <<TRUE, 0>>} }

InitTwice == \E c \in Catalogs : \E o \in TwiceCalls : InitEngine(c, o)

\* The answer to the request in flight arrives (MakeRequestRecv) and is
\* recorded; during the second call the upstream repeats the answers of
\* the first, as long as it has any.
TwiceRecv ==
    /\ spc \in {"exact", "validate"}
    /\ \E r \in (IF hist.run = 2 /\ Len(hist.answers) < Len(hist.firstAnswers)
                  THEN {hist.firstAnswers[Len(hist.answers) + 1]}
                  ELSE EngineAnswers) :
          /\ \E yields \in BOOLEAN : MakeRequestRecv(EP, r, yields)
          /\ hist' = [hist EXCEPT !.answers = Append(@, r)]
    /\ UNCHANGED <<tpc, tool, subq, mySess, bodyOut, result, engVars>>

\* The caller keeps what the first call returned or raised and calls
\* search_azure_prices again with the same arguments: the parameters and
\* locals of the new call (lines 98-110) are fresh, the object is the same.
SearchAgain ==
    /\ epc \in {"returned", "raised"}
    /\ op.name = "search"
    /\ hist.run = 1
    /\ hist' = [ run |-> 2, answers |-> <<>>, first |-> eres, firstAnswers |-> hist.answers,
                 firstQueries |-> qlog ]
    /\ epc' = "start"
    /\ spc' = "idle"
    /\ sargs' = NoSearchArgs
    /\ sdata' = NoBody
    /\ sres' = NoSearchResult
    /\ qlog' = <<>>
    /\ eres' = NoResult
    /\ UNCHANGED <<catalog, op, eloc, sessVars, fetchVars, running>>
    /\ UNCHANGED <<tpc, tool, subq, mySess, bodyOut, result>>

NextTwice ==
    \/ EngineStart
    \/ EngineSend
    \/ TwiceRecv
    \/ EngineJson
    \/ EngineWake
    \/ SearchReturned
    \/ SearchRaised
    \/ SearchDone
    \/ EngineRaised
    \/ SearchAgain

SpecTwice == InitTwice /\ [][NextTwice]_vars

(***************************************************************************)
(* search_azure_prices_with_fuzzy_matching and discover_service_skus       *)
(* called once, with the hints below, against every catalog.               *)
(***************************************************************************)

Str_vm     == <<"v", "m">>
Str_VM     == <<"V", "M">>
Str_app    == <<"a", "p", "p">>
Str_backup == <<"b", "a", "c", "k", "u", "p">>
Str_zzz    == <<"z", "z", "z">>
\* Two words with a tab between them, the second one part of "Backup".
Str_zz_ba  == <<"z", "z", "\t", "b", "a">>

ServiceHints ==
    {Str_vm, Str_VM, Svc_VirtualMachines, Str_app, Str_backup, Str_zzz, Str_zz_ba}

FuzzyCalls ==
    { [name |-> "fuzzy", suggest |-> suggest,
       args |-> SearchArgs(hint, None, region, None, None, limit, FALSE, 0, TRUE)] :
        hint \in ServiceHints, region \in {None, Str_eastus}, limit \in {1, 50},
        suggest \in BOOLEAN }
    \cup
    { [name |-> "discover_service_skus", suggest |-> TRUE,
       args |-> SearchArgs(hint, None, region, None, None, 30, FALSE, 0, TRUE)] :
        hint \in ServiceHints, region \in {None, Str_eastus} }

\* Catalogs with a record whose productName, or serviceName, is null.
Unnamed ==
    { <<PriceRecord(Svc_Backup, None, Str_B1, Str_eastus, 25, Str_GBMonth, <<>>)>>,
      <<PriceRecord(None, Svc_Backup, Str_B1, Str_eastus, 25, Str_GBMonth, <<>>)>> }

InitFuzzy == \E c \in Catalogs \cup Unnamed : \E o \in FuzzyCalls : InitEngine(c, o)

NextFuzzy ==
    \/ EngineStart
    \/ EngineSend
    \/ EngineRecv
    \/ EngineJson
    \/ EngineWake
    \/ SearchReturned
    \/ SearchRaised
    \/ EngineRaised
    \/ FuzzyAfterExact
    \/ FuzzyAfterTier1
    \/ FuzzyAfterTier2
    \/ FuzzyAfterBroad
    \/ FuzzyAfterTier3

SpecFuzzy == InitFuzzy /\ [][NextFuzzy]_vars

(***************************************************************************)
(* AzurePricingServer.compare_prices                                       *)
(***************************************************************************)

\* An entry of comparisons (lines 322-329 and 346-353); the catalog records
\* have no meterName, so meter_name is None.
Comparison(region, item) ==
    [ region |-> region, sku_name |-> item.skuName, retail_price |-> item.retailPrice,
      unit_of_measure |-> item.unitOfMeasure, product_name |-> item.productName,
      meter_name |-> None, hasOriginalPrice |-> FALSE, original_price |-> 0 ]

\* sku_prices.values() (lines 341-355): the first item of each truthy SKU
\* name, in the order of first occurrence.
RECURSIVE GroupBySku(_, _)
GroupBySku(items, seen) ==
    IF items = <<>> THEN <<>>
    ELSE IF Truthy(Head(items).skuName) /\ Head(items).skuName \notin seen
    THEN <<Comparison(Head(items).armRegionName, Head(items))>>
             \o GroupBySku(Tail(items), seen \cup {Head(items).skuName})
    ELSE GroupBySku(Tail(items), seen)

\* Lines 358-364: the comparisons with a non-zero price get the discounted
\* price and original_price.
DiscountComparisons(comparisons, pct) ==
    [ i \in 1..Len(comparisons) |->
        IF comparisons[i].retail_price # 0
        THEN [comparisons[i] EXCEPT !.retail_price = Discounted(comparisons[i].retail_price, pct),
                                    !.hasOriginalPrice = TRUE,
                                    !.original_price = comparisons[i].retail_price]
        ELSE comparisons[i] ]

\* list.sort(key=retail_price) is stable: x goes behind the entries whose
\* price is not greater.
RECURSIVE InsertByPrice(_, _)
InsertByPrice(x, sorted) ==
    IF sorted = <<>> THEN <<x>>
    ELSE IF Head(sorted).retail_price <= x.retail_price
    THEN <<Head(sorted)>> \o InsertByPrice(x, Tail(sorted))
    ELSE <<x>> \o sorted

\* Mutant of SortByPrice: the comparisons are left in the order collected.
SortByPrice_Unsorted(comparisons) == comparisons

RECURSIVE SortByPrice(_)
SortByPrice(comparisons) ==
    IF comparisons = <<>> THEN <<>>
    ELSE InsertByPrice(comparisons[Len(comparisons)],
                       SortByPrice(SubSeq(comparisons, 1, Len(comparisons) - 1)))

\* The result dict of compare_prices (lines 357-383) for its arguments a,
\* its regions and the comparisons collected.
CompareResult(a, regions, comparisons) ==
    [ comparisons |-> SortByPrice(IF DiscountApplies(a)
                                  THEN DiscountComparisons(comparisons, a.discount_percentage)
                                  ELSE comparisons),
      service_name |-> a.service_name,
      currency |-> a.currency_code,
      comparison_type |-> IF regions # <<>> THEN "regions" ELSE "skus",
      hasDiscountApplied |-> DiscountApplies(a),
      discount_applied |-> IF DiscountApplies(a) THEN a.discount_percentage ELSE 0 ]

\* Mutant of RegionSearchArgs: the discount is handed on to the search.
RegionSearchArgs_PassesDiscount(a, region) ==
    [ SearchArgs(a.service_name, None, region, a.sku_name, None, 10, a.hasDiscount,
                 a.discount_percentage, TRUE)
        EXCEPT !.currency_code = a.currency_code ]

\* The search of one region (lines 311-317) and of the service (334-338).
RegionSearchArgs(a, region) ==
    [ SearchArgs(a.service_name, None, region, a.sku_name, None, 10, FALSE, 0, TRUE)
        EXCEPT !.currency_code = a.currency_code ]

SkusSearchArgs(a) ==
    [ SearchArgs(a.service_name, None, None, None, None, 20, FALSE, 0, TRUE)
        EXCEPT !.currency_code = a.currency_code ]

CompareLocals(comparisons, rest, region) ==
    [comparisons |-> comparisons, rest |-> rest, region |-> region]

\* compare_prices starts: the search of the first region, or of the service
\* when no region list is given (lines 305-338).
CompareStart ==
    /\ epc = "start"
    /\ op.name = "compare"
    /\ IF op.regions # <<>>
       THEN /\ CallSearch(RegionSearchArgs(op.args, Head(op.regions)), "region")
            /\ epc' = "cmp_region"
            /\ eloc' = CompareLocals(<<>>, Tail(op.regions), Head(op.regions))
       ELSE /\ CallSearch(SkusSearchArgs(op.args), "skus")
            /\ epc' = "cmp_skus"
            /\ eloc' = CompareLocals(<<>>, <<>>, None)
    /\ UNCHANGED <<catalog, op, eres, toolVars>>

\* After the try block of one region: the search of the next region, or
\* the rest of compare_prices (lines 357-383).
CompareNext(comparisons) ==
    IF eloc.rest # <<>>
    THEN /\ CallSearch(RegionSearchArgs(op.args, Head(eloc.rest)), "region")
         /\ epc' = epc
         /\ eloc' = CompareLocals(comparisons, Tail(eloc.rest), Head(eloc.rest))
         /\ eres' = eres
    ELSE /\ eres' = [kind |-> "compare", val |-> CompareResult(op.args, op.regions, comparisons)]
         /\ epc' = "returned"
         /\ eloc' = CompareLocals(comparisons, <<>>, eloc.region)
         /\ NoCall

\* Mutant of CompareRegionReturned: the loop goes on to the next region
\* without awaiting the search of this one.
CompareRegionReturned_NotAwaited ==
    /\ epc = "cmp_region"
    /\ spc \in {"exact", "done"}
    /\ CompareNext(IF sres.items # <<>>
                   THEN Append(eloc.comparisons, Comparison(eloc.region, sres.items[1]))
                   ELSE eloc.comparisons)
    /\ UNCHANGED <<catalog, op, toolVars>>

\* The search of a region returned (lines 319-329).
CompareRegionReturned ==
    /\ epc = "cmp_region"
    /\ spc = "done"
    /\ CompareNext(IF sres.items # <<>>
                   THEN Append(eloc.comparisons, Comparison(eloc.region, sres.items[1]))
                   ELSE eloc.comparisons)
    /\ UNCHANGED <<catalog, op, toolVars>>

\* The search of a region raised: `except Exception` logs a warning and the
\* loop goes on (lines 330-331).
CompareRegionFailed ==
    /\ CatchesInLoop(epc)
    /\ spc = "failed"
    /\ CompareNext(eloc.comparisons)
    /\ UNCHANGED <<catalog, op, toolVars>>

\* The search of the service returned (lines 340-383).
CompareSkusReturned ==
    /\ epc = "cmp_skus"
    /\ spc = "done"
    /\ eres' = [kind |-> "compare",
                val |-> CompareResult(op.args, op.regions, GroupBySku(sres.items, {}))]
    /\ epc' = "returned"
    /\ eloc' = CompareLocals(GroupBySku(sres.items, {}), <<>>, None)
    /\ NoCall
    /\ UNCHANGED <<catalog, op, toolVars>>

(***************************************************************************)
(* AzurePricingServer.estimate_costs                                       *)
(*                                                                         *)
(* The prices of the records are integers in millionths of the currency    *)
(* unit; the rates and costs computed from them are Python floats, and     *)
(* what round() makes of them is given in millionths (round(x, 6)), in     *)
(* hundredths (round(x, 2)), percentages in hundredths of a percent.       *)
(***************************************************************************)

\* hourly_rate (and plan_hourly): the price of the record, times
\* (1 - discount_percentage / 100) when the discount applies (lines 417-419
\* and 434-436).
RateFloat(a, price) ==
    IF DiscountApplies(a) THEN DiscountedFloat(price, a.discount_percentage)
    ELSE PriceFloat(price)

\* What the price of a record is multiplied by, in hundredths, to give the
\* rate: 100 - discount_percentage when the discount applies.
Hundredths(a) == IF DiscountApplies(a) THEN 100 - a.discount_percentage ELSE 100

\* round(hourly_rate, 6), in millionths
Rate(a, price) ==
    RoundOfProduct(RateFloat(a, price), 6, <<price, Hundredths(a)>>, 100)

\* x * n for an int n
Times(x, n) == FMul(x, FFromInt(n))

\* Mutant of Cost: the cents beyond the second decimal are dropped.
Cost_Truncated(x, factors) == BToInt(BDivMod(Product(factors), BFromInt(1000000))[1])

\* round(x, 2), in cents, of a cost x that is the product of a price in
\* millionths, hundredths of it and hours: of `factors`.
Cost(x, factors) == RoundOfProduct(x, 2, factors, 1000000)

\* plan_data of one savings plan (lines 430-457), `price` the price on
\* demand.
PlanEstimate(a, hours, price, plan) ==
    [ term |-> plan.term,
      hourly_rate |-> Rate(a, plan.retailPrice),
      monthly_cost |->
          Cost(Times(RateFloat(a, plan.retailPrice), hours),
               <<plan.retailPrice, Hundredths(a), hours>>),
      yearly_cost |->
          Cost(Times(Times(RateFloat(a, plan.retailPrice), hours), 12),
               <<plan.retailPrice, Hundredths(a), hours, 12>>),
      savings_percent |->
          \* hourly_rate > 0: the price and what multiplies it have one sign
          IF (price > 0 /\ Hundredths(a) > 0) \/ (price < 0 /\ Hundredths(a) < 0)
          THEN RoundOfDifference(
                   Times(FDiv(FSub(RateFloat(a, price), RateFloat(a, plan.retailPrice)),
                              RateFloat(a, price)), 100),
                   2, price, plan.retailPrice, <<10000>>, price)
          ELSE 0,
      annual_savings |->
          RoundOfDifference(
              FSub(Times(Times(RateFloat(a, price), hours), 12),
                   Times(Times(RateFloat(a, plan.retailPrice), hours), 12)),
              2, price, plan.retailPrice, <<Hundredths(a), hours, 12>>, 1000000),
      hasOriginal |-> DiscountApplies(a),
      original_hourly_rate |-> IF DiscountApplies(a) THEN plan.retailPrice ELSE 0,
      original_monthly_cost |->
          IF DiscountApplies(a)
          THEN Cost(Times(PriceFloat(plan.retailPrice), hours), <<plan.retailPrice, 100, hours>>)
          ELSE 0,
      original_yearly_cost |->
          IF DiscountApplies(a)
          THEN Cost(Times(Times(PriceFloat(plan.retailPrice), hours), 12),
                    <<plan.retailPrice, 100, hours, 12>>)
          ELSE 0 ]

\* on_demand_pricing (lines 466-471 and 485-488)
OnDemandPricing(a, hours, price) ==
    [ hourly_rate |-> Rate(a, price),
      daily_cost |-> Cost(Times(RateFloat(a, price), 24), <<price, Hundredths(a), 24>>),
      monthly_cost |-> Cost(Times(RateFloat(a, price), hours), <<price, Hundredths(a), hours>>),
      yearly_cost |->
          Cost(Times(Times(RateFloat(a, price), hours), 12), <<price, Hundredths(a), hours, 12>>),
      hasOriginal |-> DiscountApplies(a),
      original_hourly_rate |-> IF DiscountApplies(a) THEN price ELSE 0,
      original_daily_cost |->
          IF DiscountApplies(a) THEN Cost(Times(PriceFloat(price), 24), <<price, 100, 24>>)
          ELSE 0,
      original_monthly_cost |->
          IF DiscountApplies(a) THEN Cost(Times(PriceFloat(price), hours), <<price, 100, hours>>)
          ELSE 0,
      original_yearly_cost |->
          IF DiscountApplies(a)
          THEN Cost(Times(Times(PriceFloat(price), hours), 12), <<price, 100, hours, 12>>)
          ELSE 0 ]

\* The result dict of estimate_costs for the first item found (lines
\* 413-490).
EstimateResult(a, hours, item) ==
    [ service_name |-> a.service_name, sku_name |-> item.skuName, region |-> a.region,
      product_name |-> item.productName, unit_of_measure |-> item.unitOfMeasure,
      currency |-> a.currency_code,
      on_demand_pricing |-> OnDemandPricing(a, hours, item.retailPrice),
      usage_assumptions |->
          [ hours_per_month |-> hours,
            hours_per_day |->
                RoundOfProduct(FDiv(FFromInt(hours), FFromRatio(3044, 100)), 2,
                               <<hours, 10000>>, 3044) ],
      savings_plans |->
          [ j \in 1..Len(item.savingsPlan) |->
              PlanEstimate(a, hours, item.retailPrice, item.savingsPlan[j]) ],
      hasDiscountApplied |-> DiscountApplies(a),
      discount_applied |-> IF DiscountApplies(a) THEN a.discount_percentage ELSE 0 ]

\* The dict returned when the search found no item (lines 405-411).
EstimateNotFound(a) ==
    [ error |-> "No pricing found", service_name |-> a.service_name,
      sku_name |-> a.sku_name, region |-> a.region ]

\* The search of estimate_costs (lines 397-403).
EstimateSearchArgs(a) ==
    [ SearchArgs(a.service_name, None, a.region, a.sku_name, None, 5, FALSE, 0, TRUE)
        EXCEPT !.currency_code = a.currency_code ]

EstimateStart ==
    /\ epc = "start"
    /\ op.name = "estimate"
    /\ CallSearch(EstimateSearchArgs(op.args), "estimate")
    /\ epc' = "estimate"
    /\ UNCHANGED <<catalog, op, eloc, eres, toolVars>>

\* Mutant of EstimateReturned: items[0] is read without the test for an
\* empty list.
EstimateReturned_Unguarded ==
    /\ epc = "estimate"
    /\ spc = "done"
    /\ eres' = IF sres.items = <<>>
               THEN [kind |-> "exc", val |-> [kind |-> "IndexError", status |-> 0, body |-> NoBody]]
               ELSE [kind |-> "estimate",
                     val |-> EstimateResult(op.args, op.hours, sres.items[1])]
    /\ epc' = IF sres.items = <<>> THEN "raised" ELSE "returned"
    /\ NoCall
    /\ UNCHANGED <<catalog, op, eloc, toolVars>>

EstimateReturned ==
    /\ epc = "estimate"
    /\ spc = "done"
    /\ eres' = IF sres.items = <<>>
               THEN [kind |-> "estimate_not_found", val |-> EstimateNotFound(op.args)]
               ELSE [kind |-> "estimate",
                     val |-> EstimateResult(op.args, op.hours, sres.items[1])]
    /\ epc' = "returned"
    /\ NoCall
    /\ UNCHANGED <<catalog, op, eloc, toolVars>>

(***************************************************************************)
(* handle_call_tool, azure_price_search: the formatted items                *)
(***************************************************************************)

\* formatted_item of one item of the search result (lines 1062-1085).
\* original_price, savings_amount and savings_percentage are only set for
\* an item that has the key originalPrice (hasSavings); savings_percentage
\* is in hundredths of a percent.
FormattedItem(item) ==
    [ service |-> item.serviceName, product |-> item.productName, sku |-> item.skuName,
      region |-> item.armRegionName, discounted_price |-> item.retailPrice,
      unit |-> item.unitOfMeasure, savings_plans |-> item.savingsPlan,
      hasSavings |-> item.hasOriginalPrice,
      original_price |-> IF item.hasOriginalPrice THEN item.originalPrice ELSE 0,
      savings_amount |->
          IF item.hasOriginalPrice
          THEN RoundOfDifference(FSub(PriceFloat(item.originalPrice), PriceFloat(item.retailPrice)),
                                 6, item.originalPrice, item.retailPrice, <<>>, 1)
          ELSE 0,
      savings_percentage |->
          IF item.hasOriginalPrice /\ item.originalPrice > 0
          THEN RoundOfDifference(
                   Times(FDiv(FSub(PriceFloat(item.originalPrice), PriceFloat(item.retailPrice)),
                              PriceFloat(item.originalPrice)), 100),
                   2, item.originalPrice, item.retailPrice, <<10000>>, item.originalPrice)
          ELSE 0 ]

(***************************************************************************)
(* AzurePricingServer.discover_skus                                        *)
(***************************************************************************)

\* The characters a string here is written with, in the order of their code
\* points, which is the order sort() compares str by.
CodePointOrder ==
    <<"", "", "", "", "", "", "", "", "\t", "\n", "", "\f",
      "\r", "", "", "", "", "", "", "", "", "", "", "",
      "", "", "", "", "", "", "", " ", "!", "\"", "#", "$",
      "%", "&", "'", "(", ")", "*", "+", ",", "-", ".", "/", "0",
      "1", "2", "3", "4", "5", "6", "7", "8", "9", ":", ";", "<",
      "=", ">", "?", "@", "A", "B", "C", "D", "E", "F", "G", "H",
      "I", "J", "K", "L", "M", "N", "O", "P", "Q", "R", "S", "T",
      "U", "V", "W", "X", "Y", "Z", "[", "\\", "]", "^", "_", "a",
      "b", "c", "d", "e", "f", "g", "h", "i", "j", "k", "l", "m",
      "n", "o", "p", "q", "r", "s", "t", "u", "v", "w", "x", "y",
      "z", "{", "|", "}", "~", "", "", "", "", "", "", "",
      "", "", "", "", "", "", "", "", "", "", "", "",
      "", "", "", "", "", "", "", "", "", "", "", "",
      "", "", " ", "¡", "¢", "£", "¤", "¥", "¦", "§", "¨", "©",
      "ª", "«", "¬", "­", "®", "¯", "°", "±", "²", "³", "´", "µ",
      "¶", "·", "¸", "¹", "º", "»", "¼", "½", "¾", "¿", "À", "Á",
      "Â", "Ã", "Ä", "Å", "Æ", "Ç", "È", "É", "Ê", "Ë", "Ì", "Í",
      "Î", "Ï", "Ð", "Ñ", "Ò", "Ó", "Ô", "Õ", "Ö", "×", "Ø", "Ù",
      "Ú", "Û", "Ü", "Ý", "Þ", "ß", "à", "á", "â", "ã", "ä", "å",
      "æ", "ç", "è", "é", "ê", "ë", "ì", "í", "î", "ï", "ð", "ñ",
      "ò", "ó", "ô", "õ", "ö", "÷", "ø", "ù", "ú", "û", "ü", "ý",
      "þ", "ÿ">>

CodePointRank(c) == CHOOSE i \in 1..Len(CodePointOrder) : CodePointOrder[i] = c

\* s < t of two str
RECURSIVE StrLess(_, _)
StrLess(s, t) ==
    IF t = <<>> THEN FALSE
    ELSE IF s = <<>> THEN TRUE
    ELSE IF Head(s) = Head(t) THEN StrLess(Tail(s), Tail(t))
    ELSE CodePointRank(Head(s)) < CodePointRank(Head(t))

\* filter_conditions and params of discover_skus (lines 501-521).
DiscoverSkusParams(service_name, region, price_type, limit) ==
    [ currencyCode |-> "USD",
      hasFilter |-> TRUE,
      filter |-> <<Cond("serviceName", "eq", service_name)>>
                 \o (IF Truthy(region) THEN <<Cond("armRegionName", "eq", region)>> ELSE <<>>)
                 \o (IF Truthy(price_type) THEN <<Cond("priceType", "eq", price_type)>> ELSE <<>>),
      hasTop |-> limit < MAX_RESULTS_PER_REQUEST,
      top |-> limit ]

\* The loop of lines 530-552 over the items left, skus being the values of
\* the dict in insertion order: a new SKU name adds an entry, a known one
\* gets the region of the item when it is new to it.
RECURSIVE CollectSkus(_, _)
CollectSkus(items, skus) ==
    IF items = <<>> THEN skus
    ELSE LET item == Head(items)
             region == item.armRegionName
             known == {i \in 1..Len(skus) : skus[i].sku_name = item.skuName}
         IN  IF Truthy(item.skuName) /\ known = {}
             THEN CollectSkus(Tail(items),
                     Append(skus,
                        [ sku_name |-> item.skuName, arm_sku_name |-> item.armSkuName,
                          product_name |-> item.productName, sample_price |-> item.retailPrice,
                          unit_of_measure |-> item.unitOfMeasure, meter_name |-> None,
                          sample_region |-> region,
                          available_regions |-> IF Truthy(region) THEN <<region>> ELSE <<>> ]))
             ELSE IF Truthy(item.skuName) /\ Truthy(region)
                       /\ \A i \in known : region \notin SeqToSet(skus[i].available_regions)
             THEN CollectSkus(Tail(items),
                     [ i \in 1..Len(skus) |->
                         IF i \in known
                         THEN [skus[i] EXCEPT !.available_regions = Append(@, region)]
                         ELSE skus[i] ])
             ELSE CollectSkus(Tail(items), skus)

\* sku_list.sort(key=sku_name)
RECURSIVE InsertBySkuName(_, _)
InsertBySkuName(x, sorted) ==
    IF sorted = <<>> THEN <<x>>
    ELSE IF StrLess(x.sku_name, Head(sorted).sku_name)
    THEN <<x>> \o sorted
    ELSE <<Head(sorted)>> \o InsertBySkuName(x, Tail(sorted))

\* Mutant of SortBySkuName: the entries are left in the order of first
\* occurrence.
SortBySkuName_Unsorted(skus) == skus

RECURSIVE SortBySkuName(_)
SortBySkuName(skus) ==
    IF skus = <<>> THEN <<>>
    ELSE InsertBySkuName(skus[Len(skus)], SortBySkuName(SubSeq(skus, 1, Len(skus) - 1)))

\* The result dict of discover_skus (lines 526-564).  The loop variable
\* `region` of line 534 is the parameter: after the loop it holds the region
\* of the last item.
DiscoverSkusResult(service_name, region, price_type, items) ==
    LET sku_list == SortBySkuName(CollectSkus(items, <<>>))
    IN  [ service_name |-> service_name,
          skus |-> sku_list,
          total_skus |-> Len(sku_list),
          price_type |-> price_type,
          region_filter |-> IF items = <<>> THEN region
                            ELSE items[Len(items)].armRegionName ]

\* discover_skus hands its own request to _make_request (lines 501-524).
DiscoverSkusStart ==
    /\ epc = "start"
    /\ op.name = "discover_skus"
    /\ spc' = "direct"
    /\ qlog' = Append(qlog,
          [ tier |-> "discover_skus",
            params |-> DiscoverSkusParams(op.args.service_name, op.args.region,
                                          op.args.price_type, op.args.limit) ])
    /\ MakeRequestEnter(EP, DefaultMaxRetries)
    /\ epc' = "discover_skus"
    /\ UNCHANGED <<catalog, op, eloc, sargs, sdata, sres, eres, toolVars>>

DiscoverSkusReturned ==
    /\ running = EP
    /\ epc = "discover_skus"
    /\ spc = "direct"
    /\ fpc[EP] = "returned"
    /\ eres' = [kind |-> "discover_skus",
                val |-> DiscoverSkusResult(op.args.service_name, op.args.region,
                                           op.args.price_type, fres[EP].body.Items)]
    /\ epc' = "returned"
    /\ NoCall
    /\ UNCHANGED <<catalog, op, eloc, toolVars>>

\* The exception of the fetch leaves discover_skus.
DiscoverSkusRaised ==
    /\ running = EP
    /\ epc = "discover_skus"
    /\ spc = "direct"
    /\ fpc[EP] = "raised"
    /\ eres' = [kind |-> "exc", val |-> fres[EP]]
    /\ epc' = "raised"
    /\ NoCall
    /\ UNCHANGED <<catalog, op, eloc, toolVars>>

(***************************************************************************)
(* Each of the five engine operations called once, with the arguments      *)
(* below, against every catalog.                                           *)
(***************************************************************************)

\* discount_percentage: absent, zero, negative, 10.
Discounts == {<<FALSE, 0>>, <<TRUE, 0>>, <<TRUE, -5>>, <<TRUE, 10>>}

HoursPerMonth == {100, 730}

\* An operation with the arguments that compare_prices (regions) and
\* estimate_costs (hours_per_month) have besides those of a search.
OpCall(name, args, regions, hours) ==
    [name |-> name, args |-> args, suggest |-> TRUE, regions |-> regions, hours |-> hours]

CompareCalls ==
    { OpCall("compare",
             SearchArgs(Svc_VirtualMachines, None, None, sku, None, 10, d[1], d[2], TRUE),
             regions, 0) :
        sku \in {None, Str_D2}, d \in Discounts,
        regions \in {<<>>, <<Str_eastus>>, <<Str_eastus, Str_westus>>,
                     <<Str_westus, Str_eastus>>} }

EstimateCalls ==
    { OpCall("estimate",
             SearchArgs(Svc_VirtualMachines, None, region, sku, None, 5, d[1], d[2], TRUE),
             <<>>, hours) :
        sku \in {Str_D2, Str_Z9}, region \in {Str_eastus, Str_westus}, d \in Discounts,
        hours \in HoursPerMonth }

DiscoverSkusCalls ==
    { OpCall("discover_skus",
             SearchArgs(Svc_VirtualMachines, None, region, None, Str_Consumption, limit,
                        FALSE, 0, TRUE),
             <<>>, 0) :
        region \in {None, Str_eastus}, limit \in {1, 100} }

OpsSearchCalls ==
    { OpCall("search",
             SearchArgs(Svc_VirtualMachines, None, None, sku, None, 50, d[1], d[2], TRUE),
             <<>>, 0) :
        sku \in {None, Str_Z9}, d \in Discounts }

OpsResolveCalls ==
    { OpCall("discover_service_skus",
             SearchArgs(hint, None, None, None, None, 30, FALSE, 0, TRUE), <<>>, 0) :
        hint \in {Str_vm, Str_app, Str_backup} }

\* search_azure_prices with every field given, empty or absent.
OpsFilterCalls ==
    { OpCall("search", SearchArgs(svc, family, region, sku, ptype, 50, FALSE, 0, FALSE), <<>>, 0) :
        svc \in {None, <<>>, Svc_VirtualMachines}, family \in {None, <<>>, Str_Compute},
        region \in {None, Str_eastus}, sku \in {None, <<>>, Str_D2},
        ptype \in {None, Str_Consumption} }

OpsCalls ==
    CompareCalls \cup EstimateCalls \cup DiscoverSkusCalls \cup OpsSearchCalls
        \cup OpsResolveCalls \cup OpsFilterCalls

InitOps == \E c \in Catalogs : \E o \in OpsCalls : InitEngine(c, o)

NextOps ==
    \/ EngineStart
    \/ EngineSend
    \/ EngineRecv
    \/ EngineJson
    \/ EngineWake
    \/ SearchReturned
    \/ SearchRaised
    \/ SearchDone
    \/ EngineRaised
    \/ FuzzyAfterExact
    \/ FuzzyAfterTier1
    \/ FuzzyAfterTier2
    \/ FuzzyAfterBroad
    \/ FuzzyAfterTier3
    \/ CompareStart
    \/ CompareRegionReturned
    \/ CompareRegionFailed
    \/ CompareSkusReturned
    \/ EstimateStart
    \/ EstimateReturned
    \/ DiscoverSkusStart
    \/ DiscoverSkusReturned
    \/ DiscoverSkusRaised

SpecOps == InitOps /\ [][NextOps]_vars

(***************************************************************************)
(* Claims about the fetcher (SpecFetch)                                    *)
(***************************************************************************)

Is429(r) == IsHttp(r) /\ r.status = 429

\* An answer that is a failure other than a 429: an HTTP error status or a
\* transport failure or any other exception.
IsOtherFailure(r) ==
    \/ IsHttp(r) /\ RaisesForStatus(r.status) /\ r.status # 429
    \/ ~IsHttp(r)

FetchOver(p) == fpc[p] \in {"returned", "raised"}

\* C1: a fetch with the default max_retries = 3 makes at most 4 HTTP attempts
\* and waits at most 30 seconds in total (5 + 10 + 15), whatever the upstream
\* answers; the 4th consecutive 429 is raised to the caller with no further
\* wait and no further attempt.
C1_AtMostFourAttemptsThirtySeconds ==
    max_retries[1] = DefaultMaxRetries =>
        /\ nreq[1] <= 4
        /\ Len(resp[1]) <= 4
        /\ SumSeq(waits[1]) <= 30
        /\ (Len(resp[1]) = 4 /\ Is429(resp[1][4])) =>
              /\ fpc[1] = "raised"
              /\ fres[1] = [kind |-> "ClientResponseError", status |-> 429, body |-> NoBody]
              /\ waits[1] = <<5, 10, 15>>
              /\ nreq[1] = 4

\* C1 witness: four consecutive 429 answers with the default max_retries.
C1_Witness ==
    /\ max_retries[1] = DefaultMaxRetries
    /\ Len(resp[1]) = 4
    /\ \A i \in 1..4 : Is429(resp[1][i])
    /\ fpc[1] = "raised"
    /\ SumSeq(waits[1]) = 30

\* C2: the fetcher retries only on 429. A non-429 HTTP error status or a
\* transport failure, on the first attempt or after earlier 429 answers, is
\* the last answer of the fetch: it is raised at once, with no wait added and
\* no further request; and every wait of the fetch follows a 429 answer.
C2_OnlyRetriesOn429 ==
    /\ \A i \in 1..Len(resp[1]) :
          IsOtherFailure(resp[1][i]) =>
              /\ i = Len(resp[1])
              /\ fpc[1] = "raised"
              /\ fres[1] = RaisedFor(resp[1][i])
              /\ Len(waits[1]) = i - 1
              /\ nreq[1] = i
    /\ Len(waits[1]) <= Len(resp[1])
    /\ \A i \in 1..Len(waits[1]) : Is429(resp[1][i])

\* C2 witness: a 500 after one 429 and one wait has been raised.
C2_Witness ==
    /\ Len(resp[1]) = 2
    /\ Is429(resp[1][1])
    /\ resp[1][2] \in {HttpResponse(500, b) : b \in FetchBodies} \cup {TransportFailure}
    /\ fpc[1] = "raised"
    /\ waits[1] = <<5>>

\* C3: with the default max_retries, k consecutive 429 answers (k in 0..3)
\* followed by a 200 with a JSON body make the fetch return the parsed body
\* of the 200 after exactly k + 1 attempts and the waits 5, 10, ..., 5k in
\* that order: once the 200 has arrived the fetch is reading the body or has
\* returned it, and no request or wait is added.
C3_SucceedsAfterK429 ==
    \A k \in 0..3 :
        ( /\ max_retries[1] = DefaultMaxRetries
          /\ Len(resp[1]) = k + 1
          /\ \A i \in 1..k : Is429(resp[1][i])
          /\ resp[1][k + 1].kind = "http" /\ resp[1][k + 1].status = 200 )
        => /\ fpc[1] \in {"json", "returned"}
           /\ fpc[1] = "returned" =>
                 fres[1] = [kind |-> "ok", status |-> 200, body |-> resp[1][k + 1].body]
           /\ nreq[1] = k + 1
           /\ waits[1] = [i \in 1..k |-> 5 * i]

\* C3 witness: two 429 answers then a 200: returned after 3 attempts, having
\* waited 5 s then 10 s.
C3_Witness ==
    /\ max_retries[1] = DefaultMaxRetries
    /\ Len(resp[1]) = 3
    /\ Is429(resp[1][1]) /\ Is429(resp[1][2])
    /\ resp[1][3].kind = "http" /\ resp[1][3].status = 200
    /\ fpc[1] = "returned"
    /\ waits[1] = <<5, 10>>
    /\ nreq[1] = 3

(***************************************************************************)
(* Claims about the tool handler and its session (Spec, SpecSeq)           *)
(***************************************************************************)

\* The invocation of p is between its start and its return.
InFlight(p) == tpc[p] \notin {"idle", "done", "escaped"}

\* The body of p's `async with` is running (its scope is entered, not exited).
InScope(p) == tpc[p] \in {"body", "op"}

AllSessionsClosed == \A i \in 1..Len(sessState) : sessState[i] = "closed"

\* C4: every invocation opens a session when it starts and that session is
\* closed by the time the invocation returns, on every exit path (result,
\* upstream error, internal fault); with no invocation in flight, every
\* session that was opened is closed.
C4_SessionClosedOnEveryExitPath ==
    /\ \A p \in Procs :
          /\ InFlight(p) => mySess[p] # 0
          /\ tpc[p] = "done" => sessState[mySess[p]] = "closed"
    /\ (\A p \in Procs : ~InFlight(p)) => AllSessionsClosed

\* The statement of C4 for invocations that do not overlap (SpecSeq): it
\* holds there, on each exit path.
C4_ClosedOnEveryExitPathWhenNotOverlapping == C4_SessionClosedOnEveryExitPath

\* C5: two concurrent invocations do not share session state: while the
\* scope of an invocation is entered, pricing_server.session is the open
\* session that invocation constructed (no other invocation replaced or closed
\* it), every request it sends leaves on its own session, no fetch meets a
\* closed session, and once both have returned every session is closed.
C5_SessionsNotShared ==
    /\ \A p \in Procs :
          /\ InScope(p) => session = mySess[p] /\ sessState[mySess[p]] = "open"
          /\ inSess[p] \in {0, mySess[p]}
          /\ fres[p].kind # "RuntimeError_session_closed"
    /\ (\A p \in Procs : ~InFlight(p)) => AllSessionsClosed

\* C6: handle_call_tool lets no exception escape: it ends with exactly one
\* text result; when the operation (or the handler's own formatting) raised,
\* the text is "Error: " and the exception; for a name that is no tool it is
\* "Unknown tool: " and the name.
C6_NoExceptionEscapes ==
    \A p \in Procs :
        /\ tpc[p] # "escaped"
        /\ tpc[p] = "done" =>
              /\ Len(result[p]) = 1
              /\ result[p][1].type = "text"
              /\ bodyOut[p].kind = "exc" =>
                    result[p][1].text = <<"Error: ", bodyOut[p].exc.kind>>
              /\ tool[p].name \notin ToolNames =>
                    result[p][1].text = <<"Unknown tool: ", tool[p].name>>

\* C6 witness: an invocation whose fetch was answered 429 four times (the
\* only way it raises a 429) has
\* returned its "Error: ..." text, and another invocation has returned
\* "Unknown tool: ...".
C6_Witness ==
    \E p, q \in Procs :
        /\ tpc[p] = "done"
        /\ bodyOut[p] = Raised([kind |-> "ClientResponseError", status |-> 429, body |-> NoBody])
        /\ result[p] = TextResult(<<"Error: ", "ClientResponseError">>)
        /\ tpc[q] = "done"
        /\ tool[q].name \in UnknownNames
        /\ result[q] = TextResult(<<"Unknown tool: ", tool[q].name>>)

(***************************************************************************)
(* Claims about search_azure_prices (SpecSearch)                           *)
(***************************************************************************)

\* The items of a result are the first records of the upstream list, in its
\* order (each the discounted copy of its record when a discount applies).
IsPrefixOfUpstream(res, a, upstream) ==
    /\ Len(res.items) <= Len(upstream)
    /\ LET first == SubSeq(upstream, 1, Len(res.items))
       IN  \/ res.items = first
           \/ DiscountApplies(a) /\ res.items = ApplyDiscountToItems(first, a.discount_percentage)

\* C7: for every upstream response and every requested limit, the result of
\* search_azure_prices has count = len(items) <= limit, and items is a
\* prefix of the upstream Items list in upstream order.
C7_CountWithinLimitAndPrefix ==
    (epc = "returned" /\ eres.kind = "search") =>
        /\ eres.val.count = Len(eres.val.items)
        /\ eres.val.count <= op.args.limit
        /\ IsPrefixOfUpstream(eres.val, op.args, sdata.Items)

\* The same holds of every search whose limit is not negative.
C7_WithinLimitWhenLimitNotNegative ==
    (epc = "returned" /\ eres.kind = "search" /\ op.args.limit >= 0) =>
        /\ eres.val.count = Len(eres.val.items)
        /\ eres.val.count <= op.args.limit
        /\ IsPrefixOfUpstream(eres.val, op.args, sdata.Items)

(***************************************************************************)
(* Claims about the fuzzy resolver (SpecFuzzy)                             *)
(***************************************************************************)

CascadeTiers == {"tier1", "tier2", "tier3_broad", "tier3"}

TiersOf(log) == {log[i].tier : i \in 1..Len(log)}

\* C8: whenever the exact search of search_azure_prices_with_fuzzy_matching
\* returns at least one item, the next step returns that result unchanged
\* and issues no query; no alias, token-overlap or broad-search query was
\* or is issued.
C8_ResolverOnlyWhenExactEmpty ==
    [][ (epc = "fz_exact" /\ spc = "done" /\ sres.items # <<>>) =>
            /\ epc' = "returned"
            /\ qlog' = qlog
            /\ TiersOf(qlog) \cap CascadeTiers = {}
            /\ op.name = "fuzzy" => eres' = [kind |-> "fuzzy", val |-> Unchanged(sres)] ]_vars

\* The exact search for "Virtual Machines", a name that has partial matches
\* in the alias table, found an item and the operation returned it.
C8_Witness ==
    /\ epc = "returned"
    /\ op.name = "fuzzy"
    /\ op.suggest
    /\ op.args.service_name = Svc_VirtualMachines
    /\ PartialMatches(SearchTerm(op.args.service_name)) # {}
    /\ eres.kind = "fuzzy"
    /\ eres.val.res.items # <<>>
    /\ eres.val.match_type = "none"

\* C9: when the exact search was empty, the lowercased hint is a key of the
\* alias table and the search for the mapped name returns at least one item,
\* the resolver returns those items with match_type = exact_mapping,
\* suggestion_used = the mapped name and original_search = the hint, and
\* issues no tier-2 or tier-3 query; the hints 'vm' and 'VM' resolve to
\* 'Virtual Machines'.
C9_Tier1ExactMapping ==
    [][ (epc = "fz_tier1" /\ spc = "done" /\ sres.items # <<>>) =>
            /\ InMappings(Lower(op.args.service_name))
            /\ epc' = "returned"
            /\ qlog' = qlog
            /\ TiersOf(qlog) \cap CascadeTiers = {"tier1"}
            /\ op.name = "fuzzy" =>
                  /\ eres'.kind = "fuzzy"
                  /\ eres'.val.res = sres
                  /\ eres'.val.match_type = "exact_mapping"
                  /\ eres'.val.original_search = op.args.service_name
                  /\ eres'.val.suggestion_used =
                        ServiceMappings[CHOOSE i \in 1..Len(ServiceMappings) :
                            ServiceMappings[i].term = Lower(op.args.service_name)].service
                  /\ op.args.service_name \in {Str_vm, Str_VM} =>
                        /\ eres'.val.suggestion_used = Svc_VirtualMachines
                        /\ \A i \in 1..Len(sres.items) :
                              sres.items[i].serviceName = Svc_VirtualMachines
            /\ op.name = "discover_service_skus" =>
                  /\ eres'.kind = "skus"
                  /\ eres'.val.match_type = "exact_mapping"
                  /\ eres'.val.original_search = op.args.service_name
                  /\ op.args.service_name \in {Str_vm, Str_VM} =>
                        eres'.val.service_found = Svc_VirtualMachines ]_vars

\* The hint 'vm' found nothing, the search for 'Virtual Machines' found an
\* item, and the operation returned it as exact_mapping after two queries.
C9_Witness ==
    /\ epc = "returned"
    /\ op.name = "fuzzy"
    /\ op.args.service_name = Str_vm
    /\ eres.kind = "fuzzy"
    /\ eres.val.match_type = "exact_mapping"
    /\ eres.val.suggestion_used = Svc_VirtualMachines
    /\ eres.val.res.items # <<>>
    /\ Len(qlog) = 2
    /\ qlog[2].tier = "tier1"

\* The place of a query in the cascade.
TierRank(tier) ==
    CASE tier = "exact" -> 0
      [] tier = "validation" -> 0
      [] tier = "tier1" -> 1
      [] tier = "tier2" -> 2
      [] tier = "tier3_broad" -> 3
      [] tier = "tier3" -> 4

Issues(tier) == qlog' # qlog /\ qlog'[Len(qlog')].tier = tier

\* C10: the queries of the cascade are issued in the order of the tiers;
\* a tier-2 query is issued only after the exact search, and the tier-1
\* search if there was one, returned nothing; the broad search of tier 3 is
\* issued only when every tier-2 search returned nothing (no suggestion);
\* suggestions of tier 2 are returned without any tier-3 query; and when
\* tier 3 finds no service, or no search of its services returns an item,
\* the result is items = [], count = 0, match_type = suggestions_only with
\* an empty suggestion list.
C10_TiersInOrder ==
    /\ [](\A i \in 1..Len(qlog) : \A j \in i..Len(qlog) :
              TierRank(qlog[i].tier) <= TierRank(qlog[j].tier))
    /\ []((epc = "returned" /\ eres.kind = "fuzzy" /\ eres.val.suggestions # <<>>
             /\ "tier2" \in TiersOf(qlog))
            => /\ TiersOf(qlog) \cap {"tier3_broad", "tier3"} = {}
               /\ eres.val.match_type = "suggestions_only")
    /\ [][ /\ Issues("tier1") => (epc = "fz_exact" /\ sres.items = <<>>)
           /\ Issues("tier2") =>
                 \/ epc = "fz_exact" /\ sres.items = <<>>
                       /\ ~InMappings(SearchTerm(op.args.service_name))
                 \/ epc = "fz_tier1" /\ sres.items = <<>>
                 \/ epc = "fz_tier2"
           /\ Issues("tier3_broad") =>
                 /\ eloc.suggestions = <<>>
                 /\ epc \in {"fz_exact", "fz_tier1", "fz_tier2"}
                 /\ sres.items = <<>>
           /\ Issues("tier3") => epc \in {"fz_broad", "fz_tier3"}
           /\ ( /\ spc = "done"
                /\ \/ epc = "fz_broad"
                         /\ MatchingServices(SearchTerm(op.args.service_name), sres.items)
                               = [raises |-> FALSE, services |-> {}]
                   \/ epc = "fz_tier3" /\ eloc.left = 0 /\ eloc.suggestions = <<>>
                         /\ sres.items = <<>> )
               => /\ epc' = "returned"
                  /\ qlog' = qlog
                  /\ op.name = "fuzzy" =>
                        /\ eres'.kind = "fuzzy"
                        /\ eres'.val.res.items = <<>>
                        /\ eres'.val.res.count = 0
                        /\ eres'.val.match_type = "suggestions_only"
                        /\ eres'.val.suggestions = <<>> ]_vars

\* The hint 'app' went through tier 2 (three services, none found) and
\* tier 3 (the broad search found no such service) and the result is
\* suggestions_only with no suggestion.
C10_Witness ==
    /\ epc = "returned"
    /\ op.name = "fuzzy"
    /\ op.args.service_name = Str_app
    /\ eres.kind = "fuzzy"
    /\ eres.val.match_type = "suggestions_only"
    /\ eres.val.suggestions = <<>>
    /\ eres.val.res.count = 0
    /\ Len(qlog) = 5
    /\ qlog[5].tier = "tier3_broad"
    /\ catalog # <<>>

\* The arguments of the request with only the service name replaced.
WithService(a, service) == [a EXCEPT !.service_name = service]

\* C11: when the hint resolves through the alias table, the tier-1 query
\* is the original request with only the service name replaced (same
\* region, family, SKU and price-type filters), and every item returned as
\* exact_mapping, and so every sample of discover_service_skus, is for the
\* region requested.
C11_Tier1KeepsFilters ==
    /\ \A i \in 1..Len(qlog) :
          qlog[i].tier = "tier1" =>
              qlog[i].params.filter =
                  FilterConditions(WithService(op.args,
                                               MappedService(SearchTerm(op.args.service_name))))
    /\ (epc = "returned" /\ eres.kind = "fuzzy" /\ eres.val.match_type = "exact_mapping"
          /\ Truthy(op.args.region))
         => \A i \in 1..Len(eres.val.res.items) :
               eres.val.res.items[i].armRegionName = op.args.region
    /\ (epc = "returned" /\ eres.kind = "skus" /\ eres.val.match_type = "exact_mapping"
          /\ Truthy(op.args.region))
         => \A i \in 1..Len(eres.val.skus) : \A j \in 1..Len(eres.val.skus[i].prices) :
               eres.val.skus[i].prices[j].region = op.args.region

\* Quotient and remainder of a * b by d, b >= 0, computed without the
\* product (which exceeds the 32-bit integers): by halving b.
RECURSIVE MulDivMod(_, _, _)
MulDivMod(a, b, d) ==
    IF b = 0 THEN <<0, 0>>
    ELSE IF b % 2 = 0
    THEN LET half == MulDivMod(a, b \div 2, d)
         IN  <<2 * half[1] + ((2 * half[2]) \div d), (2 * half[2]) % d>>
    ELSE LET less == MulDivMod(a, b - 1, d)
         IN  <<less[1] + (a \div d) + ((less[2] + (a % d)) \div d), (less[2] + (a % d)) % d>>

\* q is a * b / d rounded to an integer: the integer nearest to it, either
\* neighbour when it lies half-way between two.
IsRounded(q, a, b, d) ==
    LET qr == MulDivMod(a, b, d)
    IN  IF 2 * qr[2] < d THEN q = qr[1]
        ELSE IF 2 * qr[2] > d THEN q = qr[1] + 1
        ELSE q \in {qr[1], qr[1] + 1}

\* A record, or savings-plan offer, carries its pre-discount price and the
\* price discounted by pct, rounded to 6 decimals.
IsDiscounted(x, pct) ==
    /\ x.hasOriginalPrice
    /\ IsRounded(x.retailPrice, x.originalPrice, 100 - pct, 100)

\* C13: for every discount percentage p with 0 < p < 100, every item of
\* the search result and every savings-plan offer of it has retailPrice =
\* original * (1 - p/100) rounded to 6 decimals and carries the original in
\* originalPrice, whatever its price.
C13_EveryItemDiscountedWithOriginal ==
    (epc = "returned" /\ eres.kind = "search" /\ op.args.hasDiscount
       /\ op.args.discount_percentage > 0 /\ op.args.discount_percentage < 100)
    => \A i \in 1..Len(eres.val.items) :
          /\ IsDiscounted(eres.val.items[i], op.args.discount_percentage)
          /\ \A j \in 1..Len(eres.val.items[i].savingsPlan) :
                IsDiscounted(eres.val.items[i].savingsPlan[j], op.args.discount_percentage)

\* The same holds of the items, and offers, whose price is not 0.
C13_DiscountedWithOriginalWhenPriced ==
    (epc = "returned" /\ eres.kind = "search" /\ op.args.hasDiscount
       /\ op.args.discount_percentage > 0 /\ op.args.discount_percentage < 100)
    => \A i \in 1..Len(eres.val.items) :
          /\ sdata.Items[i].retailPrice # 0
                => /\ IsDiscounted(eres.val.items[i], op.args.discount_percentage)
                   /\ eres.val.items[i].originalPrice = sdata.Items[i].retailPrice
          /\ \A j \in 1..Len(eres.val.items[i].savingsPlan) :
                sdata.Items[i].savingsPlan[j].retailPrice # 0
                    => IsDiscounted(eres.val.items[i].savingsPlan[j],
                                    op.args.discount_percentage)

(***************************************************************************)
(* Claims about the five engine operations (SpecOps)                       *)
(***************************************************************************)

\* The fetch of the sub-query under way ended in a non-429 upstream error
\* or a transport failure, and the operation has not ended yet.
SubQueryFailed ==
    /\ epc \notin {"returned", "raised"}
    /\ fpc[EP] = "raised"
    /\ \/ fres[EP].kind = "ClientError"
       \/ fres[EP].kind = "ClientResponseError" /\ fres[EP].status # 429

\* The failure goes up: no query is issued, and the step either takes the
\* exception out of the search or ends the operation in failure.
Propagates ==
    /\ qlog' = qlog
    /\ \/ epc' = "raised" /\ eres'.kind = "exc" /\ eres'.val = fres[EP]
       \/ epc' = epc /\ spc \in {"exact", "validate"} /\ spc' = "failed"

\* C12: in every engine operation (search, compare in both modes with its
\* per-region loop, estimate, discover_skus, discover_service_skus), once a
\* sub-query has failed with a non-429 upstream error or a transport
\* failure, no later sub-query is issued and the operation ends in failure.
C12_FailurePropagatesImmediately ==
    [][SubQueryFailed => Propagates]_vars

\* C12 as amended: the same in every operation but the per-region loop of
\* compare_prices, where the failure of a region's search is caught and
\* logged, its region contributes no comparison, and the loop goes on with
\* the next region or, after the last one, returns the comparisons of the
\* regions that answered.
C12_FailurePropagatesExceptInRegionLoop ==
    [][ SubQueryFailed =>
          IF epc = "cmp_region" /\ spc = "failed"
          THEN /\ eloc'.comparisons = eloc.comparisons
               /\ IF eloc.rest # <<>>
                  THEN /\ epc' = epc
                       /\ Len(qlog') = Len(qlog) + 1
                       /\ qlog'[Len(qlog')].tier = "region"
                  ELSE /\ epc' = "returned"
                       /\ qlog' = qlog
                       /\ eres'.kind = "compare"
                       /\ Len(eres'.val.comparisons) = Len(eloc.comparisons)
          ELSE Propagates ]_vars

\* discover_service_skus ended in the transport failure, or server error,
\* of a query of its cascade, after the exact search had been answered.
C12_Witness ==
    /\ epc = "raised"
    /\ op.name = "discover_service_skus"
    /\ Len(qlog) >= 2
    /\ eres.kind = "exc"
    /\ eres.val.kind \in {"ClientError", "ClientResponseError"}
    /\ eres.val.status # 429

\* The arguments with discount_percentage left out.
NoDiscount(a) == [a EXCEPT !.hasDiscount = FALSE, !.discount_percentage = 0]

\* C14: with a discount that is absent, zero or negative, search, compare
\* and estimate return exactly what they return with no discount (the
\* upstream prices), with no discount_applied descriptor and no
\* original-price field, and the discount is never the cause of an error.
C14_NonPositiveDiscountIgnored ==
    ~(op.args.hasDiscount /\ op.args.discount_percentage > 0) =>
        /\ (epc = "raised" /\ op.name \in {"search", "compare", "estimate"}) =>
              /\ eres.val = fres[EP]
              /\ eres.val.kind \in {"ClientError", "ClientResponseError"}
        /\ (epc = "returned" /\ eres.kind = "search") =>
              /\ eres.val = SearchResult(NoDiscount(op.args), sdata, eres.val.validation)
              /\ ~eres.val.hasDiscountApplied
              /\ eres.val.items = Truncate(sdata.Items, op.args.limit)
              /\ \A i \in 1..Len(eres.val.items) :
                    /\ ~eres.val.items[i].hasOriginalPrice
                    /\ \A j \in 1..Len(eres.val.items[i].savingsPlan) :
                          ~eres.val.items[i].savingsPlan[j].hasOriginalPrice
        /\ (epc = "returned" /\ eres.kind = "compare") =>
              /\ eres.val = CompareResult(NoDiscount(op.args), op.regions, eloc.comparisons)
              /\ ~eres.val.hasDiscountApplied
              /\ \A i \in 1..Len(eres.val.comparisons) :
                    /\ ~eres.val.comparisons[i].hasOriginalPrice
                    /\ \E k \in 1..Len(catalog) :
                          /\ catalog[k].retailPrice = eres.val.comparisons[i].retail_price
                          /\ catalog[k].skuName = eres.val.comparisons[i].sku_name
        /\ (epc = "returned" /\ eres.kind = "estimate") =>
              /\ eres.val = EstimateResult(NoDiscount(op.args), op.hours, sres.items[1])
              /\ ~eres.val.hasDiscountApplied
              /\ ~eres.val.on_demand_pricing.hasOriginal
              /\ eres.val.on_demand_pricing.hourly_rate = sres.items[1].retailPrice
              /\ \A j \in 1..Len(eres.val.savings_plans) :
                    /\ ~eres.val.savings_plans[j].hasOriginal
                    /\ eres.val.savings_plans[j].hourly_rate =
                          sres.items[1].savingsPlan[j].retailPrice

\* estimate_costs was called with discount_percentage = -5 and returned an
\* estimate, with a savings plan, of an item that has a price.
C14_Witness ==
    /\ epc = "returned"
    /\ op.name = "estimate"
    /\ op.args.hasDiscount
    /\ op.args.discount_percentage < 0
    /\ eres.kind = "estimate"
    /\ eres.val.on_demand_pricing.monthly_cost > 0
    /\ eres.val.savings_plans # <<>>

(***************************************************************************)
(* Claims about SKU validation (SpecSearch)                                *)
(***************************************************************************)

\* A SKU name is related to the one requested: one contains the other, or
\* a whitespace-separated word of the requested one occurs in it, case
\* ignored.
RelatedToRequested(name, requested) ==
    \/ Contains(Lower(requested), Lower(name))
    \/ Contains(Lower(name), Lower(requested))
    \/ \E w \in SeqToSet(Split(Lower(requested))) : Contains(w, Lower(name))

\* C15: when a skuName filter is given, validation is enabled and the
\* search returns no item, the result (a value, not an exception) carries
\* sku_validation for the requested SKU with at most 5 suggestions, of
\* pairwise distinct SKU names, each related to the requested name.
C15_NotFoundSuggestions ==
    (epc = "returned" /\ eres.kind = "search" /\ Truthy(op.args.sku_name)
       /\ op.args.validate_sku /\ eres.val.items = <<>>)
    => LET v == eres.val.validation
       IN  /\ v.hasSkuValidation
           /\ v.original_sku = op.args.sku_name
           /\ Len(v.suggestions) <= 5
           /\ \A i \in 1..Len(v.suggestions) : \A j \in 1..Len(v.suggestions) :
                 i # j => v.suggestions[i].sku_name # v.suggestions[j].sku_name
           /\ \A i \in 1..Len(v.suggestions) :
                 /\ RelatedToRequested(v.suggestions[i].sku_name, op.args.sku_name)
                 /\ \E k \in 1..Len(catalog) :
                       /\ catalog[k].skuName = v.suggestions[i].sku_name
                       /\ catalog[k].serviceName = op.args.service_name

\* The search for D2 in eastus found nothing in the service with 7 distinct
\* D2 SKU names (and one B1) in westus, and 5 of them are suggested.
C15_Witness ==
    /\ epc = "returned"
    /\ eres.kind = "search"
    /\ catalog = BulkCatalog
    /\ op.args.sku_name = Str_D2
    /\ eres.val.items = <<>>
    /\ eres.val.validation.hasSkuValidation
    /\ Len(eres.val.validation.suggestions) = 5

\* C16: when a skuName filter is given, validation is enabled and more than
\* 10 items are returned, the result carries a clarification listing the
\* skuNames of the first 5 items in result order, no sku_validation, and
\* the same items and count as the search without validation.
C16_ClarificationKeepsItems ==
    (epc = "returned" /\ eres.kind = "search" /\ Truthy(op.args.sku_name)
       /\ op.args.validate_sku /\ Len(eres.val.items) > 10)
    => /\ eres.val.validation.hasClarification
       /\ ~eres.val.validation.hasSkuValidation
       /\ eres.val.validation.clarification = [i \in 1..5 |-> eres.val.items[i].skuName]
       /\ LET plain == SearchResult([op.args EXCEPT !.validate_sku = FALSE], sdata,
                                    NoValidation)
          IN  /\ eres.val.items = plain.items
              /\ eres.val.count = plain.count
              /\ eres.val.count = Len(eres.val.items)

\* The search for D2 returned the 11 records of the service with many SKUs
\* and the clarification.
C16_Witness ==
    /\ epc = "returned"
    /\ eres.kind = "search"
    /\ op.args.sku_name = Str_D2
    /\ op.args.validate_sku
    /\ Len(eres.val.items) = 11
    /\ eres.val.validation.hasClarification
    /\ Len(qlog) = 1

(***************************************************************************)
(* Claims about the SKU aggregates of discover_service_skus (SpecFuzzy)    *)
(***************************************************************************)

\* discover_service_skus returned the aggregates of the items of its last
\* search.
Aggregated ==
    /\ epc = "returned"
    /\ op.name = "discover_service_skus"
    /\ eres.kind = "skus"
    /\ eres.val.match_type # "no_match"

\* C17: for every non-empty result processed by discover_service_skus, the
\* number of aggregates and total_skus equal the number of distinct skuName
\* values among the items, and no aggregate's region list repeats a region.
C17_OneAggregatePerSkuName ==
    Aggregated =>
        LET skus == eres.val.skus
            names == {sres.items[i].skuName : i \in 1..Len(sres.items)}
        IN  /\ sres.items # <<>>
            /\ Len(skus) = Cardinality(names)
            /\ eres.val.total_skus = Cardinality(names)
            /\ {skus[i].sku_name : i \in 1..Len(skus)} = names
            /\ \A i \in 1..Len(skus) :
                  /\ \A j \in 1..Len(skus[i].regions) : \A k \in 1..Len(skus[i].regions) :
                        j # k => skus[i].regions[j] # skus[i].regions[k]
                  /\ SeqToSet(skus[i].regions)
                        = {sres.items[n].armRegionName :
                             n \in {m \in 1..Len(sres.items) :
                                      sres.items[m].skuName = skus[i].sku_name}}

\* Two items of the same SKU name and region were aggregated to one
\* aggregate with one region.
C17_Witness ==
    /\ Aggregated
    /\ Len(sres.items) = 2
    /\ sres.items[1].skuName = sres.items[2].skuName
    /\ sres.items[1].armRegionName = sres.items[2].armRegionName
    /\ eres.val.total_skus = 1
    /\ Len(eres.val.skus[1].regions) = 1

\* The samples of an aggregate: the items of its SKU name, in upstream order.
SamplesOf(sku_name) ==
    SelectSeq(sres.items, LAMBDA it : it.skuName = sku_name)

\* C18: for every SKU aggregate, min_price is the minimum over its samples
\* with price > 0, or the first sample's price when no sample is positive,
\* and sample_unit is the unit of the first sample in upstream order.
C18_MinPriceAndSampleUnit ==
    Aggregated =>
        \A i \in 1..Len(eres.val.skus) :
            LET agg == eres.val.skus[i]
                samples == SamplesOf(agg.sku_name)
                positive == {samples[n].retailPrice : n \in 1..Len(samples)} \ {p \in Int : p <= 0}
            IN  /\ samples # <<>>
                /\ IF positive # {}
                   THEN /\ agg.min_price \in positive
                        /\ \A p \in positive : agg.min_price <= p
                   ELSE agg.min_price = samples[1].retailPrice
                /\ agg.sample_unit = samples[1].unitOfMeasure

\* An aggregate of a free sample per GB/Month followed by one at 0.096 per
\* hour has min_price 0.096, the price of the second, and the unit of the
\* first.
C18_Witness ==
    /\ Aggregated
    /\ Len(sres.items) = 2
    /\ sres.items[1].skuName = sres.items[2].skuName
    /\ sres.items[1].retailPrice = 0
    /\ sres.items[1].unitOfMeasure = Str_GBMonth
    /\ sres.items[2].retailPrice = 96000
    /\ sres.items[2].unitOfMeasure = Str_Hour
    /\ eres.val.skus[1].min_price = 96000
    /\ eres.val.skus[1].sample_unit = Str_GBMonth

(***************************************************************************)
(* Claims about estimate_costs (SpecOps)                                   *)
(***************************************************************************)

\* The records of the catalog that match the service, SKU and region asked
\* for, in upstream order.
MatchingTriple ==
    SelectSeq(catalog, LAMBDA it : /\ it.serviceName = op.args.service_name
                                   /\ it.armRegionName = op.args.region
                                   /\ Contains(op.args.sku_name, it.skuName))

\* C19: estimate_costs with no item matching the service/SKU/region triple
\* returns a value made of an error description and the service_name,
\* sku_name and region asked for, with no cost figure; it raises nothing
\* but the failure of an upstream query.
C19_NotFoundIsAValue ==
    (op.name = "estimate" /\ MatchingTriple = <<>>)
    => /\ epc = "returned" =>
            /\ eres.kind = "estimate_not_found"
            /\ DOMAIN eres.val = {"error", "service_name", "sku_name", "region"}
            /\ eres.val.error # ""
            /\ eres.val.service_name = op.args.service_name
            /\ eres.val.sku_name = op.args.sku_name
            /\ eres.val.region = op.args.region
       /\ epc = "raised" =>
            /\ eres.kind = "exc"
            /\ eres.val = fres[EP]
            /\ eres.val.kind \in {"ClientError", "ClientResponseError"}

\* The estimate for Z9 found no record in a catalog of Virtual Machines and
\* returned the not-found value after its search and the validation query.
C19_Witness ==
    /\ epc = "returned"
    /\ op.name = "estimate"
    /\ op.args.sku_name = Str_Z9
    /\ catalog # <<>>
    /\ catalog[1].serviceName = Svc_VirtualMachines
    /\ MatchingTriple = <<>>
    /\ eres.kind = "estimate_not_found"
    /\ Len(qlog) = 2

\* The hourly rate the figures are made from, 100-fold in millionths: the
\* price, less the discount when one applies.
EffectiveRate100(price) ==
    IF op.args.hasDiscount /\ op.args.discount_percentage > 0
    THEN price * (100 - op.args.discount_percentage)
    ELSE price * 100

\* c is rate * factor in cents, rounded to the cent.
Cents(c, rate100, factor) == IsRounded(c, rate100, factor, 1000000)

\* C20: estimate_costs derives every figure from the hourly rate h of the
\* first matching item and hours_per_month m: daily = 24 h, monthly = h m,
\* yearly = 12 h m, and for each savings plan with rate s, in upstream
\* order, monthly = s m, yearly = 12 s m and annual_savings = yearly - plan
\* yearly, each rounded to 2 decimals.
C20_EstimateFigures ==
    (epc = "returned" /\ op.name = "estimate" /\ MatchingTriple # <<>>)
    => LET item == MatchingTriple[1]
           h == EffectiveRate100(item.retailPrice)
           m == op.hours
           od == eres.val.on_demand_pricing
           plans == eres.val.savings_plans
       IN  /\ eres.kind = "estimate"
           /\ Cents(od.daily_cost, h, 24)
           /\ Cents(od.monthly_cost, h, m)
           /\ Cents(od.yearly_cost, h, 12 * m)
           /\ Len(plans) = Len(item.savingsPlan)
           /\ \A j \in 1..Len(plans) :
                 LET s == EffectiveRate100(item.savingsPlan[j].retailPrice)
                 IN  /\ plans[j].term = item.savingsPlan[j].term
                     /\ Cents(plans[j].monthly_cost, s, m)
                     /\ Cents(plans[j].yearly_cost, s, 12 * m)
                     /\ Cents(plans[j].annual_savings, h - s, 12 * m)

\* The estimate for an item at 0.192 an hour and 730 hours a month:
\* monthly 140.16 and yearly 1681.92.
C20_Witness ==
    /\ epc = "returned"
    /\ op.name = "estimate"
    /\ eres.kind = "estimate"
    /\ ~op.args.hasDiscount
    /\ MatchingTriple # <<>>
    /\ MatchingTriple[1].retailPrice = 192000
    /\ op.hours = 730
    /\ eres.val.on_demand_pricing.daily_cost = 461
    /\ eres.val.on_demand_pricing.monthly_cost = 14016
    /\ eres.val.on_demand_pricing.yearly_cost = 168192

\* The estimate for an item with two savings plans lists both, in order.
C20_WitnessPlans ==
    /\ epc = "returned"
    /\ op.name = "estimate"
    /\ eres.kind = "estimate"
    /\ Len(eres.val.savings_plans) = 2
    /\ eres.val.savings_plans[1].annual_savings # eres.val.savings_plans[2].annual_savings

(***************************************************************************)
(* Claims about ratios, order and determinism                              *)
(***************************************************************************)

\* C21 for estimate_costs: with an on-demand hourly rate of 0, every
\* savings plan of the estimate has savings_percent 0.
C21_EstimateZeroRate ==
    (epc = "returned" /\ op.name = "estimate" /\ eres.kind = "estimate"
       /\ EffectiveRate100(MatchingTriple[1].retailPrice) = 0)
    => \A j \in 1..Len(eres.val.savings_plans) : eres.val.savings_plans[j].savings_percent = 0

\* The estimate of a free item with a savings plan was returned.
C21_EstimateWitness ==
    /\ epc = "returned"
    /\ op.name = "estimate"
    /\ eres.kind = "estimate"
    /\ eres.val.on_demand_pricing.hourly_rate = 0
    /\ eres.val.savings_plans # <<>>

\* C21: every ratio with a zero denominator yields 0: in the search tool,
\* the formatted item of a discounted search whose original (upstream)
\* price is 0 reports savings_percentage 0.
C21_ZeroDenominatorsYieldZero ==
    (epc = "returned" /\ op.name = "search" /\ eres.kind = "search"
       /\ DiscountApplies(op.args))
    => \A i \in 1..Len(eres.val.items) :
          sdata.Items[i].retailPrice = 0
          => /\ FormattedItem(eres.val.items[i]).hasSavings
             /\ FormattedItem(eres.val.items[i]).savings_percentage = 0

\* C22: compare_prices returns its comparisons in the order of
\* non-decreasing price, the price being the one after any discount, in
\* the region mode and in the SKU mode.
C22_ComparisonsSortedByPrice ==
    (epc = "returned" /\ op.name = "compare" /\ eres.kind = "compare")
    => LET c == eres.val.comparisons
       IN  /\ eres.val.comparison_type = (IF op.regions # <<>> THEN "regions" ELSE "skus")
           /\ \A i \in 1..Len(c) : \A j \in 1..Len(c) :
                 i < j => c[i].retail_price <= c[j].retail_price

\* A comparison of eastus and westus with a discount returned the westus
\* entry, which is cheaper, before the eastus entry.
C22_Witness ==
    /\ epc = "returned"
    /\ op.name = "compare"
    /\ eres.kind = "compare"
    /\ op.regions = <<Str_eastus, Str_westus>>
    /\ op.args.hasDiscount /\ op.args.discount_percentage > 0
    /\ Len(eres.val.comparisons) = 2
    /\ eres.val.comparisons[1].region = Str_westus
    /\ eres.val.comparisons[2].region = Str_eastus
    /\ eres.val.comparisons[2].hasOriginalPrice
    /\ eres.val.comparisons[1].retail_price < eres.val.comparisons[2].retail_price

\* A comparison of SKUs returned two SKUs, the one found second first.
C22_WitnessSkus ==
    /\ epc = "returned"
    /\ op.name = "compare"
    /\ eres.kind = "compare"
    /\ op.regions = <<>>
    /\ Len(eres.val.comparisons) = 2
    /\ Len(catalog) = 2
    /\ eres.val.comparisons[1].sku_name = catalog[2].skuName
    /\ eres.val.comparisons[1].retail_price < eres.val.comparisons[2].retail_price

\* C23: search_azure_prices run twice with the same arguments and no
\* discount, against an upstream that answers the second call as it
\* answered the first, ends the second call as the first: the same result
\* (items in the same order, count, has_more, currency, filters_applied)
\* or the same exception, after the same queries and answers.
C23_SecondCallSameResult ==
    (hist.run = 2 /\ epc \in {"returned", "raised"})
    => /\ eres = hist.first
       /\ qlog = hist.firstQueries
       /\ hist.answers = hist.firstAnswers

\* The second call returned the item the first call had returned, each after
\* a 429 and a retry.
C23_Witness ==
    /\ hist.run = 2
    /\ epc = "returned"
    /\ hist.first.kind = "search"
    /\ eres.kind = "search"
    /\ eres.val.items # <<>>
    /\ Len(hist.firstAnswers) = 2
    /\ Len(hist.answers) = 2
    /\ hist.answers[1].status = 429

(***************************************************************************)
(* Claims about discover_skus (SpecOps)                                    *)
(***************************************************************************)

\* discover_skus returned; the items are those of the envelope its fetch
\* returned.
DiscoveredSkus ==
    /\ epc = "returned"
    /\ op.name = "discover_skus"
    /\ eres.kind = "discover_skus"

\* C24: discover_skus returns one entry per distinct non-empty skuName
\* among the upstream items, in ascending order of sku_name, total_skus
\* being the length of the list and no entry's available_regions holding a
\* region twice.
C24_OneEntryPerSkuSorted ==
    DiscoveredSkus =>
        LET items == fres[EP].body.Items
            skus == eres.val.skus
            names == {items[i].skuName : i \in 1..Len(items)} \ {None, <<>>}
        IN  /\ {skus[i].sku_name : i \in 1..Len(skus)} = names
            /\ Len(skus) = Cardinality(names)
            /\ eres.val.total_skus = Len(skus)
            /\ \A i \in 1..Len(skus) : \A j \in 1..Len(skus) :
                  i < j => StrLess(skus[i].sku_name, skus[j].sku_name)
            /\ \A i \in 1..Len(skus) :
                  LET r == skus[i].available_regions
                  IN  \A j \in 1..Len(r) : \A k \in 1..Len(r) : j # k => r[j] # r[k]

\* Two SKUs came back in descending order of name and are listed ascending.
C24_Witness ==
    /\ DiscoveredSkus
    /\ Len(fres[EP].body.Items) = 2
    /\ fres[EP].body.Items[1].skuName = Str_D2v3
    /\ fres[EP].body.Items[2].skuName = Str_D2
    /\ eres.val.total_skus = 2
    /\ eres.val.skus[1].sku_name = Str_D2
    /\ eres.val.skus[2].sku_name = Str_D2v3

\* Two items of one SKU and one region made one entry with one region.
C24_WitnessRegions ==
    /\ DiscoveredSkus
    /\ Len(fres[EP].body.Items) = 2
    /\ fres[EP].body.Items[1] = fres[EP].body.Items[2]
    /\ eres.val.total_skus = 1
    /\ Len(eres.val.skus[1].available_regions) = 1

\* C29: discover_skus reports in region_filter the region argument of the
\* caller (None when none was given), whatever items the upstream returned.
C29_RegionFilterIsArgument ==
    DiscoveredSkus => eres.val.region_filter = op.args.region

\* C29 for the calls whose upstream returned no item: the loop never
\* assigns `region` and region_filter is the argument.
C29_RegionFilterIsArgumentWhenNoItem ==
    (DiscoveredSkus /\ fres[EP].body.Items = <<>>) => eres.val.region_filter = op.args.region

(***************************************************************************)
(* Claims about the filter, the number of fetches and their order          *)
(***************************************************************************)

\* The fields a filter may test, in the order of the code, and the argument
\* of search_azure_prices each one is made from.
FilterFields == <<"serviceName", "serviceFamily", "armRegionName", "skuName", "priceType">>

FilterArgument(a, k) ==
    CASE k = 1 -> a.service_name
      [] k = 2 -> a.service_family
      [] k = 3 -> a.region
      [] k = 4 -> a.sku_name
      [] k = 5 -> a.price_type

\* C25: the filter sent upstream by search_azure_prices, and filters_applied
\* in its result, hold exactly one predicate per argument that is neither
\* absent nor empty among serviceName, serviceFamily, region, skuName
\* (contains) and priceType, in that order; with no such argument no
\* $filter is sent.
C25_FilterFromSuppliedFields ==
    (op.name = "search" /\ qlog # <<>>)
    => LET p == qlog[1].params
           f == p.filter
           a == op.args
       IN  /\ p.hasFilter = (\E k \in 1..5 : FilterArgument(a, k) \notin {None, <<>>})
           /\ ~p.hasFilter => f = <<>>
           /\ \A i \in 1..Len(f) : \E k \in 1..5 : f[i].field = FilterFields[k]
           /\ \A k \in 1..5 :
                 LET at == {i \in 1..Len(f) : f[i].field = FilterFields[k]}
                 IN  IF FilterArgument(a, k) \notin {None, <<>>}
                     THEN /\ Cardinality(at) = 1
                          /\ \A i \in at : /\ f[i].value = FilterArgument(a, k)
                                            /\ f[i].op = (IF k = 4 THEN "contains" ELSE "eq")
                     ELSE at = {}
           /\ \A i \in 1..Len(f) : \A j \in 1..Len(f) :
                 i < j => \E k \in 1..5 : \E l \in 1..5 :
                             k < l /\ f[i].field = FilterFields[k] /\ f[j].field = FilterFields[l]
           /\ (epc = "returned" /\ eres.kind = "search") => eres.val.filters_applied = f

\* The search with an empty service name and the four other fields given
\* returned an item found with the four predicates.
C25_Witness ==
    /\ epc = "returned"
    /\ op.name = "search"
    /\ eres.kind = "search"
    /\ op.args.service_name = <<>>
    /\ Len(eres.val.filters_applied) = 4
    /\ qlog[1].params.hasFilter
    /\ eres.val.items # <<>>

\* The search with an empty and an absent field only sent no $filter and
\* returned the whole catalog.
C25_WitnessNoFilter ==
    /\ epc = "returned"
    /\ op.name = "search"
    /\ eres.kind = "search"
    /\ op.args.service_name = <<>>
    /\ op.args.sku_name = None
    /\ ~qlog[1].params.hasFilter
    /\ Len(eres.val.items) = 2

\* The search has ended: it returned to its caller or raised.
SearchEnded == epc \in {"returned", "raised"}

\* C26: a call of search_azure_prices hands at most 2 queries to
\* _make_request, its own and at most one of the SKU validation, whose
\* search has no SKU filter and validation disabled, and it ends.
C26_AtMostTwoFetchesAndEnds ==
    /\ [](/\ Len(qlog) <= 2
          /\ Len(qlog) = 2 =>
                /\ qlog[1].tier = "exact"
                /\ qlog[2].tier = "validation"
                /\ \A i \in 1..Len(qlog[2].params.filter) :
                      qlog[2].params.filter[i].field # "skuName")
    /\ <>SearchEnded

\* The search found nothing, its validation found nothing either, and it
\* returned after the 2 queries.
C26_Witness ==
    /\ epc = "returned"
    /\ eres.kind = "search"
    /\ Len(qlog) = 2
    /\ eres.val.items = <<>>
    /\ eres.val.validation.hasSkuValidation
    /\ eres.val.validation.suggestions = <<>>
    /\ catalog # <<>>

\* A step hands a further query of the invocation to _make_request.
IssuesNextSubQuery == qlog # <<>> /\ Len(qlog') > Len(qlog)

\* C27: within one engine invocation the sub-queries (fuzzy tiers,
\* validation re-query, per-region loop of compare) are issued one at a
\* time: a sub-query is issued only once the fetch of the one before it has
\* returned or raised, all its retries and waits done, so that no request
\* of the invocation is in flight then.
C27_SubQueriesOneAtATime ==
    [][IssuesNextSubQuery =>
          /\ Len(qlog') = Len(qlog) + 1
          /\ fpc[EP] \in {"returned", "raised"}
          /\ running = EP]_vars

\* The comparison of two regions: the search of the first region found an
\* item, the search of the second region was answered 429 and its retry is
\* in flight.
C27_Witness ==
    /\ op.name = "compare"
    /\ epc = "cmp_region"
    /\ Len(op.regions) = 2
    /\ Len(qlog) = 2
    /\ fpc[EP] = "inflight"
    /\ attempt[EP] = 1
    /\ eloc.comparisons # <<>>

(***************************************************************************)
(* Claims about the session scope of a fetch (SpecFetch)                   *)
(***************************************************************************)

\* _make_request was called while no scope is active (session is None, or
\* names the session a scope closed when it exited) and has ended.
EndedOutsideScope ==
    /\ fpc[1] \in {"returned", "raised"}
    /\ session = 0 \/ sessState[session] = "closed"

\* C28: whenever _make_request is called while no scope is active, before
\* the first scope was entered or after a scope has exited and closed its
\* session, it raises RuntimeError 'HTTP session not initialized' and sends
\* no HTTP request.
C28_NotInitializedOutsideScope ==
    EndedOutsideScope =>
        /\ fpc[1] = "raised"
        /\ fres[1].kind = "RuntimeError_not_initialized"
        /\ nreq[1] = 0

\* What holds of C28 in both cases: the call raises and no HTTP request is
\* sent; the message is 'HTTP session not initialized' before the first
\* scope only.
C28_NoRequestOutsideScope ==
    EndedOutsideScope =>
        /\ fpc[1] = "raised"
        /\ nreq[1] = 0
        /\ resp[1] = <<>>
        /\ fres[1].kind = (IF session = 0 THEN "RuntimeError_not_initialized"
                           ELSE "RuntimeError_session_closed")

(***************************************************************************)
(* Claims about the discount of estimate_costs and compare_prices          *)
(***************************************************************************)

\* The records of the catalog a comparison may have been made from.
SourcesOf(c) ==
    {k \in 1..Len(catalog) : /\ catalog[k].serviceName = op.args.service_name
                             /\ catalog[k].skuName = c.sku_name
                             /\ catalog[k].armRegionName = c.region}

\* C30: in estimate_costs and compare_prices a discount p > 0 is applied
\* exactly once: the search inside runs without discount, every reported
\* rate is the upstream price times (1 - p/100), to 6 decimals, and the
\* original price or rate reported is the upstream price.
C30_DiscountAppliedOnce ==
    (op.name \in {"estimate", "compare"} /\ op.args.hasDiscount /\ op.args.discount_percentage > 0)
    => LET pct == op.args.discount_percentage
       IN  /\ ~(sargs.hasDiscount /\ sargs.discount_percentage > 0)
           /\ (epc = "returned" /\ eres.kind = "compare") =>
                 \A i \in 1..Len(eres.val.comparisons) :
                    LET c == eres.val.comparisons[i]
                    IN  /\ SourcesOf(c) # {}
                        /\ \A k \in SourcesOf(c) :
                             /\ IsRounded(c.retail_price, catalog[k].retailPrice, 100 - pct, 100)
                             /\ c.hasOriginalPrice => c.original_price = catalog[k].retailPrice
                             /\ catalog[k].retailPrice # 0 => c.hasOriginalPrice
           /\ (epc = "returned" /\ eres.kind = "estimate") =>
                 LET item == MatchingTriple[1]
                     od == eres.val.on_demand_pricing
                 IN  /\ IsRounded(od.hourly_rate, item.retailPrice, 100 - pct, 100)
                     /\ od.hasOriginal
                     /\ od.original_hourly_rate = item.retailPrice
                     /\ \A j \in 1..Len(eres.val.savings_plans) :
                           LET plan == eres.val.savings_plans[j]
                               s == item.savingsPlan[j].retailPrice
                           IN  /\ IsRounded(plan.hourly_rate, s, 100 - pct, 100)
                               /\ plan.hasOriginal
                               /\ plan.original_hourly_rate = s

\* The comparison of eastus and westus with 10% off reports 0.0864 for the
\* record at 0.096, with 0.096 as original price.
C30_Witness ==
    /\ epc = "returned"
    /\ op.name = "compare"
    /\ eres.kind = "compare"
    /\ op.regions # <<>>
    /\ op.args.hasDiscount /\ op.args.discount_percentage = 10
    /\ \E i \in 1..Len(eres.val.comparisons) :
          /\ eres.val.comparisons[i].retail_price = 86400
          /\ eres.val.comparisons[i].hasOriginalPrice
          /\ eres.val.comparisons[i].original_price = 96000

\* The estimate with 10% off of the record at 0.096 with two savings plans.
C30_WitnessEstimate ==
    /\ epc = "returned"
    /\ op.name = "estimate"
    /\ eres.kind = "estimate"
    /\ op.args.hasDiscount /\ op.args.discount_percentage = 10
    /\ eres.val.on_demand_pricing.hourly_rate = 86400
    /\ eres.val.on_demand_pricing.original_hourly_rate = 96000
    /\ Len(eres.val.savings_plans) = 2
    /\ eres.val.savings_plans[1].hourly_rate = 63000

====
